---- MODULE Spec2Model ----
(***************************************************************************)
(* A model of the cocobase-go client SDK:                                  *)
(*   - the fluent QueryBuilder and its Build,                              *)
(*   - the Client session: token, cached user, RWMutex, request, APIError, *)
(*   - the Storage implementations FileStorage and MemoryStorage,          *)
(*   - the WebSocket read loop of WatchCollection.                         *)
(*                                                                         *)
(* Go strings are modelled as sequences of one-character strings, so that  *)
(* concatenation, splitting, escaping and sorting are computed as the code *)
(* computes them.                                                          *)
(***************************************************************************)
EXTENDS Integers, Sequences, FiniteSets, TLC

(***************************************************************************)
(* Bounds of the model.                                                    *)
(***************************************************************************)
\* longest chain of builder calls explored on one QueryBuilder
MaxCalls == 2
\* largest page number and page size / limit / offset argument
MaxPage == 3
MaxPerPage == 5
\* most frames the server sends on one subscription
MaxFrames == 3

(***************************************************************************)
(* Strings.                                                                *)
(***************************************************************************)
\* The characters that occur, in ascending byte order (ASCII).
Alphabet ==
    << " ", "%", "&", "+", ",", "-",
       "0", "1", "2", "3", "4", "5", "6", "7", "8", "9",
       ":", "=", "A", "B", "C", "D", "E", "F", "[", "]", "_",
       "a", "b", "c", "d", "e", "f", "g", "h", "i", "j", "k", "l", "m",
       "n", "o", "p", "q", "r", "s", "t", "u", "v", "w", "x", "y", "z" >>

Ord(c) == CHOOSE i \in 1..Len(Alphabet) : Alphabet[i] = c

RECURSIVE StrLess(_, _)
\* Go's < on strings: bytewise lexicographic order (used by sort.Strings).
StrLess(a, b) ==
    IF b = <<>> THEN FALSE
    ELSE IF a = <<>> THEN TRUE
    ELSE IF Head(a) = Head(b) THEN StrLess(Tail(a), Tail(b))
    ELSE Ord(Head(a)) < Ord(Head(b))

RECURSIVE Join(_, _)
\* strings.Join(elems, sep)
Join(elems, sep) ==
    IF elems = <<>> THEN <<>>
    ELSE IF Len(elems) = 1 THEN elems[1]
    ELSE elems[1] \o sep \o Join(Tail(elems), sep)

\* index of the first "=" of s, 0 when there is none
IndexEq(s) ==
    IF \E i \in 1..Len(s) : s[i] = "="
    THEN CHOOSE i \in 1..Len(s) : s[i] = "=" /\ \A j \in 1..(i - 1) : s[j] # "="
    ELSE 0

\* strings.SplitN(s, "=", 2)
SplitN2(s) ==
    IF IndexEq(s) = 0 THEN << s >>
    ELSE << SubSeq(s, 1, IndexEq(s) - 1), SubSeq(s, IndexEq(s) + 1, Len(s)) >>

Digits == << "0", "1", "2", "3", "4", "5", "6", "7", "8", "9" >>

RECURSIVE NatStr(_)
NatStr(n) == IF n < 10 THEN << Digits[n + 1] >>
             ELSE NatStr(n \div 10) \o << Digits[(n % 10) + 1] >>

\* fmt.Sprintf("%d", n)
Itoa(n) == IF n < 0 THEN << "-" >> \o NatStr(0 - n) ELSE NatStr(n)

\* A Go value passed as interface{}: a string, an int or a bool.
StrV(s) == [kind |-> "string", s |-> s]
IntV(n) == [kind |-> "int", n |-> n]
BoolV(b) == [kind |-> "bool", b |-> b]

\* fmt.Sprintf("%v", value)
FormatV(v) ==
    CASE v.kind = "string" -> v.s
      [] v.kind = "int" -> Itoa(v.n)
      [] v.kind = "bool" -> IF v.b THEN << "t", "r", "u", "e" >>
                                   ELSE << "f", "a", "l", "s", "e" >>

\* url.QueryEscape of one byte: unreserved bytes stay, a space becomes "+",
\* every other byte becomes %XX in upper-case hex.
EscapeChar(c) ==
    CASE c = " " -> << "+" >>
      [] c = "%" -> << "%", "2", "5" >>
      [] c = "&" -> << "%", "2", "6" >>
      [] c = "+" -> << "%", "2", "B" >>
      [] c = "," -> << "%", "2", "C" >>
      [] c = ":" -> << "%", "3", "A" >>
      [] c = "=" -> << "%", "3", "D" >>
      [] c = "[" -> << "%", "5", "B" >>
      [] c = "]" -> << "%", "5", "D" >>
      [] OTHER -> << c >>

RECURSIVE QueryEscape(_)
QueryEscape(s) ==
    IF s = <<>> THEN <<>> ELSE EscapeChar(Head(s)) \o QueryEscape(Tail(s))

(***************************************************************************)
(* State.                                                                  *)
(***************************************************************************)
VARIABLES
    \* QueryBuilder (cocobase/query.go)
    filters,      \* map[string]string
    orFilters,    \* map[string][]string
    limit,        \* int
    offset,       \* int
    sort,         \* string
    order,        \* string
    built,        \* what Build returned, when it was called since the last builder call
    lastCall,     \* history: the last builder call and its arguments
    ncalls,       \* history: number of builder calls made
    \* Client, per client object
    token,        \* c.token
    user,         \* c.user (NoUser: nil)
    apiKey,       \* c.apiKey
    storage,      \* c.storage: "nil" or the shared Storage "S"
    mu,           \* c.mu: the goroutine holding it for writing, and its readers
    loggedOut,    \* history: Logout cleared the token and no token was set since
    \* the shared Storage (its map)
    store,
    \* goroutines calling the client
    stack,        \* per goroutine: the frames of the calls in progress
    ret,          \* per goroutine: what the call that last returned gave back
    sent,         \* per goroutine: the HTTP request its request() just issued
    lastOp,       \* history: the API call the goroutine makes or made last
    tokenEvent,   \* history: the last call that wrote or deleted the stored token
    env,          \* the environment: goroutines, clients, the server's answers
    \* FileStorage (storage package)
    data,         \* s.data
    file,         \* the file at s.filepath
    fsMu,         \* s.mu
    fsStack,      \* per goroutine: its call of Get, Set or Delete, if any
    fsRet,        \* per goroutine: what its last call returned
    crashed,      \* the runtime stopped the program (concurrent map access)
    \* one subscription (cocobase/realtime.go)
    conn,         \* "none", "open" or "failed": what WatchCollection made
    wire,         \* frames sent by the server and not yet read
    wend,         \* how the server ended the stream, "none" if it did not
    netClosed,    \* conn.conn.Close() was called
    loop,         \* where the read loop goroutine is
    event,        \* the loop's local: the event decoded last
    arrived,      \* history: all frames the server sent, in order
    decoded,      \* history: the events ReadJSON decoded, in order
    delivered,    \* history: the events the callback was invoked with, in order
    active,       \* history: invocations of the callback in progress
    errSeen,      \* history: ReadJSON returned an error
    closed,       \* connection.closed
    connMu,       \* connection.mu: its holder
    caller,       \* where the goroutine calling Close and IsClosed is
    isClosed      \* what IsClosed returned last, if it was called

qvars == << filters, orFilters, limit, offset, sort, order, built, lastCall, ncalls >>

cvars == << token, user, apiKey, storage, mu, loggedOut, store,
            stack, ret, sent, lastOp, tokenEvent, env >>

fvars == << data, file, fsMu, fsStack, fsRet, crashed >>

wvars == << conn, wire, wend, netClosed, loop, event, arrived, decoded, delivered,
            active, errSeen, closed, connMu, caller, isClosed >>

vars == << qvars, cvars, fvars, wvars >>

\* what a QueryBuilder step leaves alone outside the builder
QFrame == UNCHANGED << cvars, fvars, wvars >>

(***************************************************************************)
(* QueryBuilder.                                                           *)
(***************************************************************************)
\* no string: Build was not called since the last builder call
NoBuild == << "NoBuild" >>

\* m[k] = v on a Go map
Put(m, k, v) == [x \in (DOMAIN m) \cup {k} |-> IF x = k THEN v ELSE m[x]]

\* append(m[k], v) stored back under k (a missing key reads as the nil slice)
Append1(m, k, v) ==
    Put(m, k, (IF k \in DOMAIN m THEN m[k] ELSE <<>>) \o << v >>)

EmptyMap == [x \in {} |-> <<>>]

\* argument domains
Fields == { << "a" >>, << "b" >> }
Texts == { << "x" >>, << "y", " ", "z" >> }
Values == { StrV(<< "x" >>), IntV(18) }
Groups == { <<>>, << "g" >> }
Ints == (0 - 1)..MaxPerPage
Pages == (0 - 1)..MaxPage
Ranges == { << IntV(1), IntV(18) >>, << StrV(<< "x" >>), StrV(<< "x" >>) >> }
FieldLists == { << f >> : f \in Fields } \cup { << << "a" >>, << "b" >> >> }
ValueLists == { << v >> : v \in Values } \cup { << IntV(18), StrV(<< "x" >>) >> }

\* the history of a call: the method and its arguments; the string an earlier
\* Build returned is forgotten
Call(m, args) ==
    /\ ncalls < MaxCalls
    /\ ncalls' = ncalls + 1
    /\ lastCall' = [m |-> m, args |-> args]
    /\ built' = NoBuild

QInit ==
    /\ filters = EmptyMap
    /\ orFilters = EmptyMap
    /\ limit = 0
    /\ offset = 0
    /\ sort = <<>>
    /\ order = <<>>
    /\ built = NoBuild
    /\ lastCall = [m |-> "NewQuery", args |-> <<>>]
    /\ ncalls = 0

\* a step that writes qb.filters[key] = val and nothing else
SetFilter(key, val) ==
    /\ filters' = Put(filters, key, val)
    /\ UNCHANGED << orFilters, limit, offset, sort, order >>
    /\ QFrame

Where(field, value) ==
    /\ Call("Where", << field, value >>)
    /\ SetFilter(field, FormatV(value))

Equals(field, value) ==
    /\ Call("Equals", << field, value >>)
    /\ SetFilter(field, FormatV(value))

NotEquals(field, value) ==
    /\ Call("NotEquals", << field, value >>)
    /\ SetFilter(field \o << "_", "n", "e" >>, FormatV(value))

GreaterThan(field, value) ==
    /\ Call("GreaterThan", << field, value >>)
    /\ SetFilter(field \o << "_", "g", "t" >>, FormatV(value))

GreaterThanOrEqual(field, value) ==
    /\ Call("GreaterThanOrEqual", << field, value >>)
    /\ SetFilter(field \o << "_", "g", "t", "e" >>, FormatV(value))

LessThan(field, value) ==
    /\ Call("LessThan", << field, value >>)
    /\ SetFilter(field \o << "_", "l", "t" >>, FormatV(value))

\* mutant of LessThanOrEqual: the key of LessThan
LessThanOrEqualAsLessThan(field, value) ==
    /\ Call("LessThanOrEqual", << field, value >>)
    /\ SetFilter(field \o << "_", "l", "t" >>, FormatV(value))

LessThanOrEqual(field, value) ==
    /\ Call("LessThanOrEqual", << field, value >>)
    /\ SetFilter(field \o << "_", "l", "t", "e" >>, FormatV(value))


\* mutant of Between: the bounds are exclusive (GreaterThan, LessThan)
BetweenExclusive(field, min, max) ==
    /\ Call("Between", << field, min, max >>)
    /\ filters' = Put(Put(filters, field \o << "_", "g", "t" >>, FormatV(min)),
                       field \o << "_", "l", "t" >>, FormatV(max))
    /\ UNCHANGED << orFilters, limit, offset, sort, order >>
    /\ QFrame

Between(field, min, max) ==
    /\ Call("Between", << field, min, max >>)
    /\ filters' = Put(Put(filters, field \o << "_", "g", "t", "e" >>, FormatV(min)),
                       field \o << "_", "l", "t", "e" >>, FormatV(max))
    /\ UNCHANGED << orFilters, limit, offset, sort, order >>
    /\ QFrame

Contains(field, substring) ==
    /\ Call("Contains", << field, substring >>)
    /\ SetFilter(field \o << "_", "c", "o", "n", "t", "a", "i", "n", "s" >>, substring)

StartsWith(field, prefix) ==
    /\ Call("StartsWith", << field, prefix >>)
    /\ SetFilter(field \o << "_", "s", "t", "a", "r", "t", "s", "w", "i", "t", "h" >>, prefix)

EndsWith(field, suffix) ==
    /\ Call("EndsWith", << field, suffix >>)
    /\ SetFilter(field \o << "_", "e", "n", "d", "s", "w", "i", "t", "h" >>, suffix)


\* mutant of Search: the fields are joined by a single-underscore "_or_"
SearchJoinedByOr(searchTerm, fields) ==
    /\ Call("Search", << searchTerm, fields >>)
    /\ SetFilter(Join(fields, << "_", "o", "r", "_" >>)
                   \o << "_", "c", "o", "n", "t", "a", "i", "n", "s" >>, searchTerm)

Search(searchTerm, fields) ==
    /\ Call("Search", << searchTerm, fields >>)
    /\ SetFilter(Join(fields, << "_", "_", "o", "r", "_", "_" >>)
                   \o << "_", "c", "o", "n", "t", "a", "i", "n", "s" >>, searchTerm)

\* the values of In / NotIn, each formatted with %v
FormatAll(values) == [i \in 1..Len(values) |-> FormatV(values[i])]


\* mutant of In: the values are joined in reverse order
InReversed(field, values) ==
    /\ Call("In", << field, values >>)
    /\ SetFilter(field \o << "_", "i", "n" >>,
                 Join([i \in 1..Len(values) |-> FormatV(values[Len(values) + 1 - i])], << "," >>))

In(field, values) ==
    /\ Call("In", << field, values >>)
    /\ SetFilter(field \o << "_", "i", "n" >>, Join(FormatAll(values), << "," >>))

NotIn(field, values) ==
    /\ Call("NotIn", << field, values >>)
    /\ SetFilter(field \o << "_", "n", "o", "t", "i", "n" >>, Join(FormatAll(values), << "," >>))

IsNull(field) ==
    /\ Call("IsNull", << field >>)
    /\ SetFilter(field \o << "_", "i", "s", "n", "u", "l", "l" >>, << "t", "r", "u", "e" >>)

IsNotNull(field) ==
    /\ Call("IsNotNull", << field >>)
    /\ SetFilter(field \o << "_", "i", "s", "n", "u", "l", "l" >>, << "f", "a", "l", "s", "e" >>)

DeletedAt == << "d", "e", "l", "e", "t", "e", "d", "A", "t" >>

Active ==
    /\ Call("Active", <<>>)
    /\ SetFilter(DeletedAt \o << "_", "i", "s", "n", "u", "l", "l" >>, << "t", "r", "u", "e" >>)

Deleted ==
    /\ Call("Deleted", <<>>)
    /\ SetFilter(DeletedAt \o << "_", "i", "s", "n", "u", "l", "l" >>, << "f", "a", "l", "s", "e" >>)

\* ------------------------------------------------------------ OR conditions
\* mutant of addCondition: the condition replaces the group's list
addConditionReplaces(groupName, field, operator, value) ==
    LET key == IF operator # <<>> THEN field \o << "_" >> \o operator ELSE field
        prefix == IF groupName = <<>> THEN << "[", "o", "r", "]" >>
                  ELSE << "[", "o", "r", ":" >> \o groupName \o << "]" >>
        filterStr == prefix \o key \o << "=" >> \o FormatV(value)
    IN /\ orFilters' = Put(orFilters, groupName, << filterStr >>)
       /\ UNCHANGED << filters, limit, offset, sort, order >>
       /\ QFrame

\* OrBuilder.addCondition on the OrBuilder of group groupName
addCondition(groupName, field, operator, value) ==
    LET key == IF operator # <<>> THEN field \o << "_" >> \o operator ELSE field
        prefix == IF groupName = <<>> THEN << "[", "o", "r", "]" >>
                  ELSE << "[", "o", "r", ":" >> \o groupName \o << "]" >>
        filterStr == prefix \o key \o << "=" >> \o FormatV(value)
    IN /\ orFilters' = Append1(orFilters, groupName, filterStr)
       /\ UNCHANGED << filters, limit, offset, sort, order >>
       /\ QFrame

\* qb.Or().M(...) is qb.OrGroup("").M(...): Or and OrGroup only fix groupName
OrWhere(g, field, value) ==
    /\ Call("Or.Where", << g, field, value >>)
    /\ addCondition(g, field, <<>>, value)

OrEquals(g, field, value) ==
    /\ Call("Or.Equals", << g, field, value >>)
    /\ addCondition(g, field, <<>>, value)

OrNotEquals(g, field, value) ==
    /\ Call("Or.NotEquals", << g, field, value >>)
    /\ addCondition(g, field, << "n", "e" >>, value)

OrGreaterThan(g, field, value) ==
    /\ Call("Or.GreaterThan", << g, field, value >>)
    /\ addCondition(g, field, << "g", "t" >>, value)

OrGreaterThanOrEqual(g, field, value) ==
    /\ Call("Or.GreaterThanOrEqual", << g, field, value >>)
    /\ addCondition(g, field, << "g", "t", "e" >>, value)

OrLessThan(g, field, value) ==
    /\ Call("Or.LessThan", << g, field, value >>)
    /\ addCondition(g, field, << "l", "t" >>, value)

OrLessThanOrEqual(g, field, value) ==
    /\ Call("Or.LessThanOrEqual", << g, field, value >>)
    /\ addCondition(g, field, << "l", "t", "e" >>, value)

OrContains(g, field, substring) ==
    /\ Call("Or.Contains", << g, field, substring >>)
    /\ addCondition(g, field, << "c", "o", "n", "t", "a", "i", "n", "s" >>, StrV(substring))

OrStartsWith(g, field, prefix) ==
    /\ Call("Or.StartsWith", << g, field, prefix >>)
    /\ addCondition(g, field, << "s", "t", "a", "r", "t", "s", "w", "i", "t", "h" >>, StrV(prefix))

OrEndsWith(g, field, suffix) ==
    /\ Call("Or.EndsWith", << g, field, suffix >>)
    /\ addCondition(g, field, << "e", "n", "d", "s", "w", "i", "t", "h" >>, StrV(suffix))

OrIsNull(g, field) ==
    /\ Call("Or.IsNull", << g, field >>)
    /\ addCondition(g, field, << "i", "s", "n", "u", "l", "l" >>, BoolV(TRUE))

OrIsNotNull(g, field) ==
    /\ Call("Or.IsNotNull", << g, field >>)
    /\ addCondition(g, field, << "i", "s", "n", "u", "l", "l" >>, BoolV(FALSE))


\* ------------------------------------------------------------ pagination
\* mutant of Limit: the offset is reset with the limit
LimitResetsOffset(n) ==
    /\ Call("Limit", << n >>)
    /\ limit' = n
    /\ offset' = 0
    /\ UNCHANGED << filters, orFilters, sort, order >>
    /\ QFrame

Limit(n) ==
    /\ Call("Limit", << n >>)
    /\ limit' = n
    /\ UNCHANGED << filters, orFilters, offset, sort, order >>
    /\ QFrame


\* mutant of Offset: the offset is added to the one set before
OffsetAdds(n) ==
    /\ Call("Offset", << n >>)
    /\ offset' = offset + n
    /\ UNCHANGED << filters, orFilters, limit, sort, order >>
    /\ QFrame

Offset(n) ==
    /\ Call("Offset", << n >>)
    /\ offset' = n
    /\ UNCHANGED << filters, orFilters, limit, sort, order >>
    /\ QFrame

\* mutant of PageOffset: the page number is not made zero-based
PageOffsetNotZeroBased(page, perPage) == (IF page < 1 THEN 1 ELSE page) * perPage

\* the offset Page computes: a page below 1 counts as page 1
PageOffset(page, perPage) == ((IF page < 1 THEN 1 ELSE page) - 1) * perPage

Page(page, perPage) ==
    /\ Call("Page", << page, perPage >>)
    /\ limit' = perPage
    /\ offset' = PageOffset(page, perPage)
    /\ UNCHANGED << filters, orFilters, sort, order >>
    /\ QFrame

\* ------------------------------------------------------------ sorting
Asc_ == << "a", "s", "c" >>
Desc_ == << "d", "e", "s", "c" >>
CreatedAt == << "c", "r", "e", "a", "t", "e", "d", "_", "a", "t" >>

SetSort(field, ord) ==
    /\ sort' = field
    /\ order' = ord
    /\ UNCHANGED << filters, orFilters, limit, offset >>
    /\ QFrame


\* mutant of OrderBy: an order set earlier is kept
OrderByKeepsOrder(field) ==
    Call("OrderBy", << field >>) /\ SetSort(field, IF order = <<>> THEN Asc_ ELSE order)

OrderBy(field) == Call("OrderBy", << field >>) /\ SetSort(field, Asc_)

OrderByAsc(field) == Call("OrderByAsc", << field >>) /\ SetSort(field, Asc_)

OrderByDesc(field) == Call("OrderByDesc", << field >>) /\ SetSort(field, Desc_)

Asc == Call("Asc", <<>>) /\ SetSort(sort, Asc_)

Desc == Call("Desc", <<>>) /\ SetSort(sort, Desc_)

Recent == Call("Recent", <<>>) /\ SetSort(CreatedAt, Desc_)

Oldest == Call("Oldest", <<>>) /\ SetSort(CreatedAt, Asc_)

\* ------------------------------------------------------------ Build
\* url.Values.Add
Add(params, k, v) == Append1(params, k, v)

RECURSIVE AddOrList(_, _)
\* the inner loop of Build over one group's conditions
AddOrList(params, list) ==
    IF list = <<>> THEN params
    ELSE LET parts == SplitN2(Head(list))
         IN AddOrList(IF Len(parts) = 2 THEN Add(params, parts[1], parts[2])
                                        ELSE params,
                      Tail(list))

RECURSIVE AddOrGroups(_, _)
\* the outer loop of Build over the groups, visited in the order gorder
AddOrGroups(params, gorder) ==
    IF gorder = <<>> THEN params
    ELSE AddOrGroups(AddOrList(params, orFilters[Head(gorder)]), Tail(gorder))

\* the orders in which a range over qb.orFilters may visit its keys
GroupOrders ==
    { s \in [1..Cardinality(DOMAIN orFilters) -> DOMAIN orFilters] :
        \A i, j \in DOMAIN s : i # j => s[i] # s[j] }


\* mutant of MinKey: the largest key, so that Encode lists the keys descending
MaxKey(S) == CHOOSE k \in S : \A o \in S : o = k \/ StrLess(o, k)

\* the smallest key of a non-empty set
MinKey(S) == CHOOSE k \in S : \A o \in S : o = k \/ StrLess(k, o)

RECURSIVE SortedKeys(_)
SortedKeys(S) ==
    IF S = {} THEN <<>>
    ELSE << MinKey(S) >> \o SortedKeys(S \ {MinKey(S)})

RECURSIVE EncodeKey(_, _)
\* the pairs k=v of one key, in the order its values were added
EncodeKey(k, vs) ==
    IF vs = <<>> THEN <<>>
    ELSE << QueryEscape(k) \o << "=" >> \o QueryEscape(Head(vs)) >>
         \o EncodeKey(k, Tail(vs))

RECURSIVE EncodePairs(_, _)
EncodePairs(params, keys) ==
    IF keys = <<>> THEN <<>>
    ELSE EncodeKey(Head(keys), params[Head(keys)]) \o EncodePairs(params, Tail(keys))

\* url.Values.Encode: keys sorted, pairs joined by "&"
Encode(params) == Join(EncodePairs(params, SortedKeys(DOMAIN params)), << "&" >>)


\* mutant of BuildParams: the order is emitted without a sort field
BuildParamsOrderAlone(gorder) ==
    LET p1 == AddOrGroups([k \in DOMAIN filters |-> << filters[k] >>], gorder)
        p2 == IF limit > 0 THEN Add(p1, << "l", "i", "m", "i", "t" >>, Itoa(limit)) ELSE p1
        p3 == IF offset > 0 THEN Add(p2, << "o", "f", "f", "s", "e", "t" >>, Itoa(offset)) ELSE p2
        p4 == IF sort # <<>> THEN Add(p3, << "s", "o", "r", "t" >>, sort) ELSE p3
        p5 == IF order # <<>>
              THEN Add(p4, << "o", "r", "d", "e", "r" >>, order) ELSE p4
    IN p5

\* the url.Values Build fills, the OR groups visited in the order gorder
BuildParams(gorder) ==
    LET p1 == AddOrGroups([k \in DOMAIN filters |-> << filters[k] >>], gorder)
        p2 == IF limit > 0 THEN Add(p1, << "l", "i", "m", "i", "t" >>, Itoa(limit)) ELSE p1
        p3 == IF offset > 0 THEN Add(p2, << "o", "f", "f", "s", "e", "t" >>, Itoa(offset)) ELSE p2
        p4 == IF sort # <<>> THEN Add(p3, << "s", "o", "r", "t" >>, sort) ELSE p3
        p5 == IF sort # <<>> /\ order # <<>>
              THEN Add(p4, << "o", "r", "d", "e", "r" >>, order) ELSE p4
    IN p5

BuildString(gorder) == Encode(BuildParams(gorder))

Build ==
    /\ \E gorder \in GroupOrders : built' = BuildString(gorder)
    /\ UNCHANGED << filters, orFilters, limit, offset, sort, order, lastCall, ncalls >>
    /\ QFrame


\* the path ListDocuments requests for the collection "c", given the string
\* query.Build() returned
ListDocumentsPath(queryStr) ==
    << "/", "c", "o", "l", "l", "e", "c", "t", "i", "o", "n", "s", "/", "c",
       "/", "d", "o", "c", "u", "m", "e", "n", "t", "s" >>
    \o (IF queryStr # <<>> THEN << "?" >> \o queryStr ELSE <<>>)

\* a new builder replaces the old one
NewQuery ==
    /\ ncalls > 0
    /\ filters' = EmptyMap
    /\ orFilters' = EmptyMap
    /\ limit' = 0
    /\ offset' = 0
    /\ sort' = <<>>
    /\ order' = <<>>
    /\ built' = NoBuild
    /\ lastCall' = [m |-> "NewQuery", args |-> <<>>]
    /\ ncalls' = 0
    /\ QFrame

NextQuery ==
    \/ \E f \in Fields, v \in Values :
          \/ Where(f, v) \/ Equals(f, v) \/ NotEquals(f, v)
          \/ GreaterThan(f, v) \/ GreaterThanOrEqual(f, v)
          \/ LessThan(f, v) \/ LessThanOrEqual(f, v)
    \/ \E f \in Fields, r \in Ranges : Between(f, r[1], r[2])
    \/ \E f \in Fields, t \in Texts :
          Contains(f, t) \/ StartsWith(f, t) \/ EndsWith(f, t)
    \/ \E t \in Texts, fs \in FieldLists : Search(t, fs)
    \/ \E f \in Fields, vs \in ValueLists : In(f, vs) \/ NotIn(f, vs)
    \/ \E f \in Fields : IsNull(f) \/ IsNotNull(f)
    \/ Active \/ Deleted
    \/ \E g \in Groups, f \in Fields, v \in Values :
          \/ OrWhere(g, f, v) \/ OrEquals(g, f, v) \/ OrNotEquals(g, f, v)
          \/ OrGreaterThan(g, f, v) \/ OrGreaterThanOrEqual(g, f, v)
          \/ OrLessThan(g, f, v) \/ OrLessThanOrEqual(g, f, v)
    \/ \E g \in Groups, f \in Fields, t \in Texts :
          OrContains(g, f, t) \/ OrStartsWith(g, f, t) \/ OrEndsWith(g, f, t)
    \/ \E g \in Groups, f \in Fields : OrIsNull(g, f) \/ OrIsNotNull(g, f)
    \/ \E n \in Ints : Limit(n) \/ Offset(n)
    \/ \E p \in Pages, n \in Ints : Page(p, n)
    \/ \E f \in Fields : OrderBy(f) \/ OrderByAsc(f) \/ OrderByDesc(f)
    \/ Asc \/ Desc \/ Recent \/ Oldest
    \/ Build
    \/ NewQuery

\* the AND filter methods alone
NextFilter ==
    \/ \E f \in Fields, v \in Values :
          \/ Where(f, v) \/ Equals(f, v) \/ NotEquals(f, v)
          \/ GreaterThan(f, v) \/ GreaterThanOrEqual(f, v)
          \/ LessThan(f, v) \/ LessThanOrEqual(f, v)
    \/ \E f \in Fields, r \in Ranges : Between(f, r[1], r[2])
    \/ \E f \in Fields, t \in Texts :
          Contains(f, t) \/ StartsWith(f, t) \/ EndsWith(f, t)
    \/ \E t \in Texts, fs \in FieldLists : Search(t, fs)
    \/ \E f \in Fields, vs \in ValueLists : In(f, vs) \/ NotIn(f, vs)
    \/ \E f \in Fields : IsNull(f) \/ IsNotNull(f)
    \/ Active \/ Deleted
    \/ Build
    \/ NewQuery

\* the pagination methods alone
NextPaging ==
    \/ \E n \in Ints : Limit(n) \/ Offset(n)
    \/ \E p \in Pages, n \in Ints : Page(p, n)
    \/ Build
    \/ NewQuery

(***************************************************************************)
(* Client: session fields, lock, storage, request.                         *)
(***************************************************************************)
Clients == { "A", "B" }
Procs == { "g1", "g2" }
None == "none"

TokenKey == "cocobase-token"
UserKey == "cocobase-user"

EmptyData == [k \in {} |-> ""]
\* c.user == nil
NoUser == [id |-> "nil", roles |-> <<>>, data |-> EmptyData]
U1 == [id |-> "u1", roles |-> << "admin" >>, data |-> [k \in { "plan" } |-> "free"]]

NoErr == [kind |-> "nil"]
NoResp == [status |-> 0]
NoRet == [v |-> None, err |-> NoErr]
NoSent == [status |-> 0 - 1]
NoOp == [fn |-> None, st |-> None]
NoEvent == [kind |-> None, t |-> ""]
NoArgs == [x |-> None]

BaseURL == "https://api.cocobase.com"

\* the environment of the sequential session: one goroutine, a first and a
\* second client over the same storage
SessionEnv ==
    [ procs |-> { "g1" }, clients |-> { "A", "B" }, observers |-> { "B" },
      tokens |-> { "", "t1", "t2" }, users |-> { U1 },
      apiKeys |-> { "k" }, storages |-> { "S" },
      statuses |-> { 200, 401 }, bodies |-> { "denied" }, roles |-> { "admin", "user" },
      data |-> { [nil |-> TRUE], [k \in { "phone" } |-> "1"] }, history |-> TRUE ]

\* the environment of the requests: one goroutine on one client, with and
\* without API key and storage, every kind of answer from the server
RequestEnv ==
    [ procs |-> { "g1" }, clients |-> { "A" }, observers |-> {},
      tokens |-> { "", "t1" }, users |-> { U1 },
      apiKeys |-> { "", "k" }, storages |-> { "nil", "S" },
      statuses |-> { 200, 204, 399, 400, 401, 403, 404, 405, 429, 500 },
      bodies |-> { "", "denied" }, roles |-> { "admin" },
      data |-> { [nil |-> TRUE], [k \in { "phone" } |-> "1"] }, history |-> FALSE ]

\* the environment of concurrent use: two goroutines on one client
ConcurrentEnv ==
    [ procs |-> { "g1", "g2" }, clients |-> { "A" }, observers |-> {},
      tokens |-> { "t1" }, users |-> { U1 },
      apiKeys |-> { "k" }, storages |-> { "S" },
      statuses |-> { 200, 401 }, bodies |-> { "denied" }, roles |-> { "admin" },
      data |-> { [k \in { "phone" } |-> "1"] }, history |-> FALSE ]

\* ---------------------------------------------------------------- frames
Frame(fn, pc, c, a) == [fn |-> fn, pc |-> pc, c |-> c, a |-> a]

Idle(p) == stack[p] = <<>>
Top(p) == stack[p][Len(stack[p])]
At(p, fn, pc) == /\ p \in env.procs /\ ~Idle(p) /\ Top(p).fn = fn /\ Top(p).pc = pc

\* the top frame moves to pc
Goto(p, pc) == stack' = [stack EXCEPT ![p][Len(stack[p])].pc = pc]

\* the top frame moves to pc with its locals a replaced
GotoWith(p, pc, a) ==
    stack' = [stack EXCEPT ![p][Len(stack[p])] = [@ EXCEPT !.pc = pc, !.a = a]]

\* the top frame calls frame and will resume at retpc
CallFrom(p, retpc, frame) ==
    stack' = [stack EXCEPT ![p] = Append([@ EXCEPT ![Len(@)].pc = retpc], frame)]

\* what the API call op, ending with err, did to the token the storage holds
TokenEventAfter(op, err) ==
    CASE op.fn = "SetToken" /\ storage[op.c] # "nil" ->
            [kind |-> "set", t |-> op.a.token]
      [] op.fn = "Logout" /\ storage[op.c] # "nil" ->
            [kind |-> "logout", t |-> ""]
      [] op.fn \in { "Login", "Register" } /\ op.tok # None /\ storage[op.c] # "nil" ->
            IF err.kind = "nil" THEN [kind |-> "set", t |-> op.tok]
                                ELSE [kind |-> "failed", t |-> op.tok]
      [] OTHER -> tokenEvent

\* the top frame returns val; the API call itself returning ends the call
Return(p, val) ==
    /\ stack' = [stack EXCEPT ![p] = SubSeq(@, 1, Len(@) - 1)]
    /\ ret' = [ret EXCEPT ![p] = IF Len(stack[p]) = 1 /\ ~env.history THEN NoRet ELSE val]
    /\ IF Len(stack[p]) = 1 /\ env.history
       THEN /\ lastOp' = [lastOp EXCEPT ![p].st = IF val.err.kind = "nil" THEN "ok" ELSE "err"]
            /\ tokenEvent' = TokenEventAfter(lastOp[p], val.err)
       ELSE UNCHANGED << lastOp, tokenEvent >>

\* the history of an API call that starts
Started(p, fn, c, a) ==
    IF env.history
    THEN lastOp' = [lastOp EXCEPT ![p] =
            [ fn |-> fn, c |-> c, a |-> a, st |-> "run", tok |-> None,
              fresh |-> token[c] = "" /\ user[c] = NoUser ]]
    ELSE UNCHANGED lastOp

\* a goroutine starts an API call on client c
StartOp(p, fn, c, a, pc) ==
    /\ p \in env.procs /\ c \in env.clients
    /\ Idle(p)
    /\ stack' = [stack EXCEPT ![p] = << Frame(fn, pc, c, a) >>]
    /\ ret' = [ret EXCEPT ![p] = NoRet]
    /\ Started(p, fn, c, a)
    /\ UNCHANGED << token, user, apiKey, storage, mu, loggedOut, store, sent, tokenEvent, env >>
    /\ UNCHANGED << qvars, fvars, wvars >>

\* a step of goroutine p inside a call: the client of the call, what never changes
Cl(p) == Top(p).c
Ar(p) == Top(p).a
Fixed == UNCHANGED << apiKey, storage, env >> /\ UNCHANGED << qvars, fvars, wvars >>

\* the top frame returns val, the request record of an earlier request dropped
Ret(p, val) == Return(p, val) /\ sent' = [sent EXCEPT ![p] = NoSent]

\* the top frame moves to pc; no return value is produced or used
Move(p, pc) == Goto(p, pc) /\ UNCHANGED << ret, sent, lastOp, tokenEvent >>

\* the top frame calls frame, having used the value returned before
Call2(p, retpc, frame) ==
    /\ CallFrom(p, retpc, frame)
    /\ ret' = [ret EXCEPT ![p] = NoRet]
    /\ sent' = [sent EXCEPT ![p] = NoSent]
    /\ UNCHANGED tokenEvent

Nil == [v |-> None, err |-> NoErr]
Fail(e) == [v |-> None, err |-> e]

\* ---------------------------------------------------------------- sync.RWMutex
\* Lock that does not wait for the holders
LockWithoutWaiting(p, c) == mu' = [mu EXCEPT ![c].w = p]

Lock(p, c) ==
    /\ mu[c].w = None /\ mu[c].r = {}
    /\ mu' = [mu EXCEPT ![c].w = p]

Unlock(p, c) == mu' = [mu EXCEPT ![c].w = None]

RLock(p, c) ==
    /\ mu[c].w = None
    /\ mu' = [mu EXCEPT ![c].r = @ \cup { p }]

RUnlock(p, c) == mu' = [mu EXCEPT ![c].r = @ \ { p }]

\* ---------------------------------------------------------------- Storage
\* Storage.Set: the map is written; a FileStorage may still fail to save
StorageSet(k, v) == store' = [x \in (DOMAIN store) \cup { k } |-> IF x = k THEN v ELSE store[x]]

\* Delete that leaves the key
StorageDeleteKeepsKey(k) == UNCHANGED store

\* Storage.Delete
StorageDelete(k) == store' = [x \in (DOMAIN store) \ { k } |-> store[x]]

\* the error a Set or Delete may return
StorageErrs == { NoErr, [kind |-> "storage"] }

\* json.Marshal(user)
UserJSON(u) == << "json", u.id >>

\* ---------------------------------------------------------------- NewClient
\* NewClient(config): a new client object takes the place of c; nobody is
\* inside a call on the old one
NewClient(p, c, key, st) ==
    /\ p \in env.procs /\ c \in env.clients
    /\ key \in env.apiKeys /\ st \in env.storages
    /\ \A q \in env.procs : Idle(q)
    /\ token' = [token EXCEPT ![c] = ""]
    /\ user' = [user EXCEPT ![c] = NoUser]
    /\ apiKey' = [apiKey EXCEPT ![c] = key]
    /\ storage' = [storage EXCEPT ![c] = st]
    /\ mu' = [mu EXCEPT ![c] = [w |-> None, r |-> {}]]
    /\ loggedOut' = [loggedOut EXCEPT ![c] = FALSE]
    /\ ret' = [ret EXCEPT ![p] = NoRet]
    /\ IF env.history
       THEN lastOp' = [lastOp EXCEPT ![p] =
               [ fn |-> "NewClient", c |-> c, a |-> NoArgs, st |-> "ok", tok |-> None,
                 fresh |-> TRUE ]]
       ELSE UNCHANGED lastOp
    /\ UNCHANGED << store, stack, sent, tokenEvent, env >>
    /\ UNCHANGED << qvars, fvars, wvars >>

\* ---------------------------------------------------------------- SetToken
SetToken(p, c, t) ==
    /\ c \notin env.observers /\ t \in env.tokens
    /\ StartOp(p, "SetToken", c, [token |-> t], "lock")

SetTokenLock(p) ==
    /\ At(p, "SetToken", "lock")
    /\ Lock(p, Cl(p))
    /\ Move(p, "write")
    /\ UNCHANGED << token, user, loggedOut, store >> /\ Fixed

SetTokenWrite(p) ==
    /\ At(p, "SetToken", "write")
    /\ token' = [token EXCEPT ![Cl(p)] = Ar(p).token]
    /\ loggedOut' = [loggedOut EXCEPT ![Cl(p)] = FALSE]
    /\ Move(p, "store")
    /\ UNCHANGED << user, mu, store >> /\ Fixed

\* storage.Set, then the deferred Unlock
SetTokenStore(p) ==
    /\ At(p, "SetToken", "store")
    /\ IF storage[Cl(p)] # "nil"
       THEN /\ StorageSet(TokenKey, Ar(p).token)
            /\ \E e \in StorageErrs : Ret(p, Fail(e))
       ELSE /\ UNCHANGED store
            /\ Ret(p, Nil)
    /\ Unlock(p, Cl(p))
    /\ UNCHANGED << token, user, loggedOut >> /\ Fixed

\* ---------------------------------------------------------------- GetToken
GetToken(p, c) == StartOp(p, "GetToken", c, NoArgs, "rlock")

GetTokenRLock(p) ==
    /\ At(p, "GetToken", "rlock")
    /\ RLock(p, Cl(p))
    /\ Move(p, "read")
    /\ UNCHANGED << token, user, loggedOut, store >> /\ Fixed

GetTokenRead(p) ==
    /\ At(p, "GetToken", "read")
    /\ GotoWith(p, "runlock", [v |-> token[Cl(p)]])
    /\ UNCHANGED << ret, sent, lastOp, tokenEvent >>
    /\ UNCHANGED << token, user, loggedOut, store, mu >> /\ Fixed

GetTokenRUnlock(p) ==
    /\ At(p, "GetToken", "runlock")
    /\ RUnlock(p, Cl(p))
    /\ Ret(p, [v |-> Ar(p).v, err |-> NoErr])
    /\ UNCHANGED << token, user, loggedOut, store >> /\ Fixed

\* ---------------------------------------------------------------- IsAuthenticated
IsAuthenticated(p, c) == StartOp(p, "IsAuthenticated", c, NoArgs, "rlock")

IsAuthenticatedRLock(p) ==
    /\ At(p, "IsAuthenticated", "rlock")
    /\ RLock(p, Cl(p))
    /\ Move(p, "read")
    /\ UNCHANGED << token, user, loggedOut, store >> /\ Fixed

\* IsAuthenticated answering from the cached user
IsAuthenticatedReadOfUser(p) ==
    /\ At(p, "IsAuthenticated", "read")
    /\ GotoWith(p, "runlock", [v |-> user[Cl(p)] # NoUser])
    /\ UNCHANGED << ret, sent, lastOp, tokenEvent >>
    /\ UNCHANGED << token, user, loggedOut, store, mu >> /\ Fixed

IsAuthenticatedRead(p) ==
    /\ At(p, "IsAuthenticated", "read")
    /\ GotoWith(p, "runlock", [v |-> token[Cl(p)] # ""])
    /\ UNCHANGED << ret, sent, lastOp, tokenEvent >>
    /\ UNCHANGED << token, user, loggedOut, store, mu >> /\ Fixed

IsAuthenticatedRUnlock(p) ==
    /\ At(p, "IsAuthenticated", "runlock")
    /\ RUnlock(p, Cl(p))
    /\ Ret(p, [v |-> Ar(p).v, err |-> NoErr])
    /\ UNCHANGED << token, user, loggedOut, store >> /\ Fixed

\* ---------------------------------------------------------------- HasRole
HasRole(p, c, role) == StartOp(p, "HasRole", c, [role |-> role], "rlock")

HasRoleRLock(p) ==
    /\ At(p, "HasRole", "rlock")
    /\ RLock(p, Cl(p))
    /\ Move(p, "read")
    /\ UNCHANGED << token, user, loggedOut, store >> /\ Fixed

HasRoleRead(p) ==
    /\ At(p, "HasRole", "read")
    /\ LET u == user[Cl(p)]
           v == u # NoUser /\ \E i \in 1..Len(u.roles) : u.roles[i] = Ar(p).role
       IN GotoWith(p, "runlock", [v |-> v])
    /\ UNCHANGED << ret, sent, lastOp, tokenEvent >>
    /\ UNCHANGED << token, user, loggedOut, store, mu >> /\ Fixed

HasRoleRUnlock(p) ==
    /\ At(p, "HasRole", "runlock")
    /\ RUnlock(p, Cl(p))
    /\ Ret(p, [v |-> Ar(p).v, err |-> NoErr])
    /\ UNCHANGED << token, user, loggedOut, store >> /\ Fixed

\* ---------------------------------------------------------------- Logout
Logout(p, c) ==
    /\ c \notin env.observers
    /\ StartOp(p, "Logout", c, NoArgs, "lock")

LogoutLock(p) ==
    /\ At(p, "Logout", "lock")
    /\ Lock(p, Cl(p))
    /\ Move(p, "write")
    /\ UNCHANGED << token, user, loggedOut, store >> /\ Fixed

\* Logout clearing the cached user only
LogoutWriteKeepsToken(p) ==
    /\ At(p, "Logout", "write")
    /\ user' = [user EXCEPT ![Cl(p)] = NoUser]
    /\ loggedOut' = [loggedOut EXCEPT ![Cl(p)] = TRUE]
    /\ Move(p, "store")
    /\ UNCHANGED << token, mu, store >> /\ Fixed

LogoutWrite(p) ==
    /\ At(p, "Logout", "write")
    /\ token' = [token EXCEPT ![Cl(p)] = ""]
    /\ user' = [user EXCEPT ![Cl(p)] = NoUser]
    /\ loggedOut' = [loggedOut EXCEPT ![Cl(p)] = TRUE]
    /\ Move(p, "store")
    /\ UNCHANGED << mu, store >> /\ Fixed

\* storage.Delete, then the deferred Unlock
LogoutStore(p) ==
    /\ At(p, "Logout", "store")
    /\ IF storage[Cl(p)] # "nil"
       THEN /\ StorageDelete(TokenKey)
            /\ \E e \in StorageErrs : Ret(p, Fail(e))
       ELSE /\ UNCHANGED store
            /\ Ret(p, Nil)
    /\ Unlock(p, Cl(p))
    /\ UNCHANGED << token, user, loggedOut >> /\ Fixed

\* ---------------------------------------------------------------- request
NoBody == [nil |-> TRUE]

\* the headers request sets
Headers(key, tok) ==
    [ h \in { "Content-Type" }
            \cup (IF key # "" THEN { "x-api-key" } ELSE {})
            \cup (IF tok # "" THEN { "Authorization" } ELSE {}) |->
        CASE h = "Content-Type" -> << "application/json" >>
          [] h = "x-api-key" -> << key >>
          [] h = "Authorization" -> << "Bearer ", tok >> ]

getErrorSuggestion(status, method) ==
    CASE status = 401 -> << "Check if your API key is valid and properly set" >>
      [] status = 403 ->
            << "You don't have permission to perform this action. Verify your access rights" >>
      [] status = 404 ->
            << "The requested resource was not found. Verify the path and ID are correct" >>
      [] status = 405 ->
            << "The ", method, " method is not allowed for this endpoint. Check the API documentation for supported methods" >>
      [] status = 429 ->
            << "You've exceeded the rate limit. Please wait before making more requests" >>
      [] OTHER -> << "Check the API documentation and verify your request format" >>

\* request taking 400 for a success
RequestResultAbove400(method, url, status, body) ==
    IF status > 400
    THEN [ v |-> NoResp,
           err |-> [ kind |-> "api", StatusCode |-> status, Method |-> method,
                     URL |-> url, Body |-> body,
                     Suggestion |-> getErrorSuggestion(status, method) ] ]
    ELSE [ v |-> [status |-> status], err |-> NoErr ]

\* what request returns for a response of the given status and body
RequestResult(method, url, status, body) ==
    IF status >= 400
    THEN [ v |-> NoResp,
           err |-> [ kind |-> "api", StatusCode |-> status, Method |-> method,
                     URL |-> url, Body |-> body,
                     Suggestion |-> getErrorSuggestion(status, method) ] ]
    ELSE [ v |-> [status |-> status], err |-> NoErr ]

\* a call of c.request(ctx, method, path, body, useDataKey)
RequestFrame(c, method, path, body, useDataKey) ==
    Frame("request", "build", c,
          [ method |-> method, path |-> path, tok |-> "",
            body |-> IF body = NoBody THEN NoBody
                     ELSE IF useDataKey THEN [data |-> body] ELSE body ])

\* json.Marshal of the body or http.NewRequestWithContext may fail
RequestBuild(p) ==
    /\ At(p, "request", "build")
    /\ \/ /\ Ar(p).body # NoBody
          /\ Ret(p, [v |-> NoResp, err |-> [kind |-> "marshal"]])
       \/ Ret(p, [v |-> NoResp, err |-> [kind |-> "create"]])
       \/ Move(p, "rlock")
    /\ UNCHANGED << token, user, loggedOut, store, mu >> /\ Fixed

RequestRLock(p) ==
    /\ At(p, "request", "rlock")
    /\ RLock(p, Cl(p))
    /\ Move(p, "read")
    /\ UNCHANGED << token, user, loggedOut, store >> /\ Fixed

RequestRead(p) ==
    /\ At(p, "request", "read")
    /\ GotoWith(p, "runlock", [Ar(p) EXCEPT !.tok = token[Cl(p)]])
    /\ UNCHANGED << ret, sent, lastOp, tokenEvent >>
    /\ UNCHANGED << token, user, loggedOut, store, mu >> /\ Fixed

RequestRUnlock(p) ==
    /\ At(p, "request", "runlock")
    /\ RUnlock(p, Cl(p))
    /\ Move(p, "do")
    /\ UNCHANGED << token, user, loggedOut, store >> /\ Fixed

\* c.httpClient.Do(req) and the status check
RequestDo(p) ==
    /\ At(p, "request", "do")
    /\ LET a == Ar(p)
           url == << BaseURL, a.path >>
           req == [ method |-> a.method, url |-> url, body |-> a.body,
                    headers |-> Headers(apiKey[Cl(p)], a.tok), client |-> Cl(p),
                    tokenAtBuild |-> a.tok ]
       IN \/ /\ sent' = [sent EXCEPT ![p] = [ req |-> req, status |-> 0, body |-> "" ]]
             /\ Return(p, [v |-> NoResp, err |-> [kind |-> "net"]])
          \/ \E st \in env.statuses :
               \E b \in (IF st >= 400 THEN env.bodies ELSE { "json" }) :
                 /\ sent' = [sent EXCEPT ![p] = [ req |-> req, status |-> st, body |-> b ]]
                 /\ Return(p, RequestResult(a.method, url, st, b))
    /\ UNCHANGED << token, user, loggedOut, store, mu >> /\ Fixed

\* ---------------------------------------------------------------- GetCurrentUser
GetCurrentUser(p, c) ==
    /\ c \notin env.observers
    /\ StartOp(p, "GetCurrentUser", c, NoArgs, "start")

GetCurrentUserStart(p) ==
    /\ At(p, "GetCurrentUser", "start")
    /\ Call2(p, "auth", Frame("IsAuthenticated", "rlock", Cl(p), NoArgs))
    /\ UNCHANGED << token, user, loggedOut, store, mu, lastOp >> /\ Fixed

GetCurrentUserAuth(p) ==
    /\ At(p, "GetCurrentUser", "auth")
    /\ IF ret[p].v
       THEN /\ Call2(p, "resp", RequestFrame(Cl(p), "GET", "/auth-collections/user", NoBody, TRUE))
            /\ UNCHANGED lastOp
       ELSE Ret(p, [v |-> NoUser, err |-> [kind |-> "unauthenticated"]])
    /\ UNCHANGED << token, user, loggedOut, store, mu >> /\ Fixed

\* the response decoded into an AppUser, stored under "cocobase-user"
GetCurrentUserResp(p) ==
    /\ At(p, "GetCurrentUser", "resp")
    /\ IF ret[p].err.kind # "nil"
       THEN Ret(p, [v |-> NoUser, err |-> ret[p].err]) /\ UNCHANGED store
       ELSE \/ Ret(p, [v |-> NoUser, err |-> [kind |-> "decode"]]) /\ UNCHANGED store
            \/ \E u \in env.users :
                 /\ IF storage[Cl(p)] # "nil" THEN StorageSet(UserKey, UserJSON(u))
                                              ELSE UNCHANGED store
                 /\ Ret(p, [v |-> u, err |-> NoErr])
    /\ UNCHANGED << token, user, loggedOut, mu >> /\ Fixed

\* ---------------------------------------------------------------- Login, Register
NoData == [nil |-> TRUE]
SomeData == [k \in { "phone" } |-> "1"]

Login(p, c) ==
    /\ c \notin env.observers
    /\ StartOp(p, "Login", c,
               [ path |-> "/auth-collections/login",
                 body |-> [email |-> "e", password |-> "pw"] ], "start")

Register(p, c, d) ==
    /\ c \notin env.observers
    /\ StartOp(p, "Register", c,
               [ path |-> "/auth-collections/signup",
                 body |-> IF d = NoData THEN [email |-> "e", password |-> "pw"]
                          ELSE [email |-> "e", password |-> "pw", data |-> d] ], "start")

\* the steps Login and Register share, fn being either
AuthStart(p, fn) ==
    /\ At(p, fn, "start")
    /\ Call2(p, "resp", RequestFrame(Cl(p), "POST", Ar(p).path, Ar(p).body, FALSE))
    /\ UNCHANGED << token, user, loggedOut, store, mu, lastOp >> /\ Fixed

\* the TokenResponse decoded, SetToken called with its AccessToken
AuthResp(p, fn) ==
    /\ At(p, fn, "resp")
    /\ IF ret[p].err.kind # "nil"
       THEN Ret(p, Fail(ret[p].err))
       ELSE \/ Ret(p, Fail([kind |-> "decode"]))
            \/ \E t \in env.tokens :
                 /\ Call2(p, "set", Frame("SetToken", "lock", Cl(p), [token |-> t]))
                 /\ lastOp' = IF env.history THEN [lastOp EXCEPT ![p].tok = t] ELSE lastOp
    /\ UNCHANGED << token, user, loggedOut, store, mu >> /\ Fixed

AuthSet(p, fn) ==
    /\ At(p, fn, "set")
    /\ IF ret[p].err.kind # "nil"
       THEN Ret(p, Fail(ret[p].err))
       ELSE /\ Call2(p, "user", Frame("GetCurrentUser", "start", Cl(p), NoArgs))
            /\ UNCHANGED lastOp
    /\ UNCHANGED << token, user, loggedOut, store, mu >> /\ Fixed

AuthUser(p, fn) ==
    /\ At(p, fn, "user")
    /\ IF ret[p].err.kind # "nil"
       THEN Ret(p, Fail(ret[p].err))
       ELSE /\ GotoWith(p, "lock", [u |-> ret[p].v])
            /\ ret' = [ret EXCEPT ![p] = NoRet]
            /\ UNCHANGED << sent, lastOp, tokenEvent >>
    /\ UNCHANGED << token, user, loggedOut, store, mu >> /\ Fixed

AuthLock(p, fn) ==
    /\ At(p, fn, "lock")
    /\ Lock(p, Cl(p))
    /\ Move(p, "write")
    /\ UNCHANGED << token, user, loggedOut, store >> /\ Fixed

AuthWrite(p, fn) ==
    /\ At(p, fn, "write")
    /\ user' = [user EXCEPT ![Cl(p)] = Ar(p).u]
    /\ Move(p, "unlock")
    /\ UNCHANGED << token, loggedOut, store, mu >> /\ Fixed

AuthUnlock(p, fn) ==
    /\ At(p, fn, "unlock")
    /\ Unlock(p, Cl(p))
    /\ Ret(p, Nil)
    /\ UNCHANGED << token, user, loggedOut, store >> /\ Fixed

\* ---------------------------------------------------------------- InitAuth
InitAuth(p, c) == StartOp(p, "InitAuth", c, NoArgs, "start")

\* storage == nil, or storage.Get("cocobase-token") fails: return nil
InitAuthStart(p) ==
    /\ At(p, "InitAuth", "start")
    /\ IF storage[Cl(p)] = "nil" \/ TokenKey \notin DOMAIN store
       THEN Ret(p, Nil)
       ELSE /\ GotoWith(p, "lock1", [token |-> store[TokenKey]])
            /\ UNCHANGED << ret, sent, lastOp, tokenEvent >>
    /\ UNCHANGED << token, user, loggedOut, store, mu >> /\ Fixed

InitAuthLock(p) ==
    /\ At(p, "InitAuth", "lock1")
    /\ Lock(p, Cl(p))
    /\ Move(p, "write1")
    /\ UNCHANGED << token, user, loggedOut, store >> /\ Fixed

InitAuthWrite(p) ==
    /\ At(p, "InitAuth", "write1")
    /\ token' = [token EXCEPT ![Cl(p)] = Ar(p).token]
    /\ loggedOut' = [loggedOut EXCEPT ![Cl(p)] = FALSE]
    /\ Move(p, "unlock1")
    /\ UNCHANGED << user, mu, store >> /\ Fixed

\* Unlock, then the call of GetCurrentUser
InitAuthUnlock(p) ==
    /\ At(p, "InitAuth", "unlock1")
    /\ Unlock(p, Cl(p))
    /\ Call2(p, "user", Frame("GetCurrentUser", "start", Cl(p), NoArgs))
    /\ UNCHANGED << token, user, loggedOut, store, lastOp >> /\ Fixed

\* ---------------------------------------------------------------- UpdateUser
UpdateArgs ==
    { [data |-> NoData, email |-> "e2", password |-> None],
      [data |-> SomeData, email |-> None, password |-> "pw2"] }

mergeData(current, updates) ==
    [ k \in (DOMAIN current) \cup (DOMAIN updates) |->
        IF k \in DOMAIN updates THEN updates[k] ELSE current[k] ]

\* the body UpdateUser sends: data merged over cur, email and password if given
UpdateBody(a, cur) ==
    [ k \in (IF a.data # NoData THEN { "data" } ELSE {})
            \cup (IF a.email # None THEN { "email" } ELSE {})
            \cup (IF a.password # None THEN { "password" } ELSE {}) |->
        CASE k = "data" -> mergeData(cur, a.data)
          [] k = "email" -> a.email
          [] k = "password" -> a.password ]

UpdateUser(p, c, a) ==
    /\ c \notin env.observers /\ a \in UpdateArgs
    /\ StartOp(p, "UpdateUser", c, [in |-> a, cur |-> EmptyData], "start")

UpdateUserStart(p) ==
    /\ At(p, "UpdateUser", "start")
    /\ Call2(p, "auth", Frame("IsAuthenticated", "rlock", Cl(p), NoArgs))
    /\ UNCHANGED << token, user, loggedOut, store, mu, lastOp >> /\ Fixed

UpdateUserAuth(p) ==
    /\ At(p, "UpdateUser", "auth")
    /\ IF ret[p].v
       THEN /\ Goto(p, IF Ar(p).in.data # NoData THEN "rlock" ELSE "req")
            /\ ret' = [ret EXCEPT ![p] = NoRet]
            /\ UNCHANGED << sent, lastOp, tokenEvent >>
       ELSE Ret(p, [v |-> NoUser, err |-> [kind |-> "unauthenticated"]])
    /\ UNCHANGED << token, user, loggedOut, store, mu >> /\ Fixed

UpdateUserRLock(p) ==
    /\ At(p, "UpdateUser", "rlock")
    /\ RLock(p, Cl(p))
    /\ Move(p, "read")
    /\ UNCHANGED << token, user, loggedOut, store >> /\ Fixed

\* currentData = c.user.Data, or the empty map when c.user == nil
UpdateUserRead(p) ==
    /\ At(p, "UpdateUser", "read")
    /\ LET u == user[Cl(p)]
       IN GotoWith(p, "runlock",
                   [Ar(p) EXCEPT !.cur = IF u # NoUser THEN u.data ELSE EmptyData])
    /\ UNCHANGED << ret, sent, lastOp, tokenEvent >>
    /\ UNCHANGED << token, user, loggedOut, store, mu >> /\ Fixed

UpdateUserRUnlock(p) ==
    /\ At(p, "UpdateUser", "runlock")
    /\ RUnlock(p, Cl(p))
    /\ Move(p, "req")
    /\ UNCHANGED << token, user, loggedOut, store >> /\ Fixed

\* mergeData, the body, the PATCH request
UpdateUserReq(p) ==
    /\ At(p, "UpdateUser", "req")
    /\ Call2(p, "resp", RequestFrame(Cl(p), "PATCH", "/auth-collections/user",
                                     UpdateBody(Ar(p).in, Ar(p).cur), FALSE))
    /\ UNCHANGED << token, user, loggedOut, store, mu, lastOp >> /\ Fixed

UpdateUserResp(p) ==
    /\ At(p, "UpdateUser", "resp")
    /\ IF ret[p].err.kind # "nil"
       THEN Ret(p, [v |-> NoUser, err |-> ret[p].err])
       ELSE \/ Ret(p, [v |-> NoUser, err |-> [kind |-> "decode"]])
            \/ \E u \in env.users :
                 /\ GotoWith(p, "lock", [u |-> u])
                 /\ ret' = [ret EXCEPT ![p] = NoRet]
                 /\ sent' = [sent EXCEPT ![p] = NoSent]
                 /\ UNCHANGED << lastOp, tokenEvent >>
    /\ UNCHANGED << token, user, loggedOut, store, mu >> /\ Fixed

UpdateUserLock(p) ==
    /\ At(p, "UpdateUser", "lock")
    /\ Lock(p, Cl(p))
    /\ Move(p, "write")
    /\ UNCHANGED << token, user, loggedOut, store >> /\ Fixed

UpdateUserWrite(p) ==
    /\ At(p, "UpdateUser", "write")
    /\ user' = [user EXCEPT ![Cl(p)] = Ar(p).u]
    /\ Move(p, "unlock")
    /\ UNCHANGED << token, loggedOut, store, mu >> /\ Fixed

UpdateUserUnlock(p) ==
    /\ At(p, "UpdateUser", "unlock")
    /\ Unlock(p, Cl(p))
    /\ Move(p, "store")
    /\ UNCHANGED << token, user, loggedOut, store >> /\ Fixed

UpdateUserStore(p) ==
    /\ At(p, "UpdateUser", "store")
    /\ IF storage[Cl(p)] # "nil" THEN StorageSet(UserKey, UserJSON(Ar(p).u))
                                 ELSE UNCHANGED store
    /\ Ret(p, [v |-> Ar(p).u, err |-> NoErr])
    /\ UNCHANGED << token, user, loggedOut, mu >> /\ Fixed

\* ---------------------------------------------------------------- documents
DocData == [k \in { "title" } |-> "x"]
DocFns == { "GetDocument", "CreateDocument", "UpdateDocument", "DeleteDocument" }

GetDocument(p, c) ==
    /\ c \notin env.observers
    /\ StartOp(p, "GetDocument", c,
               [method |-> "GET", path |-> "/collections/c/documents/d", body |-> NoBody],
               "start")

CreateDocument(p, c) ==
    /\ c \notin env.observers
    /\ StartOp(p, "CreateDocument", c,
               [method |-> "POST", path |-> "/collections/documents?collection=c",
                body |-> DocData], "start")

UpdateDocument(p, c) ==
    /\ c \notin env.observers
    /\ StartOp(p, "UpdateDocument", c,
               [method |-> "PATCH", path |-> "/collections/c/documents/d", body |-> DocData],
               "start")

DeleteDocument(p, c) ==
    /\ c \notin env.observers
    /\ StartOp(p, "DeleteDocument", c,
               [method |-> "DELETE", path |-> "/collections/c/documents/d", body |-> NoBody],
               "start")

\* the request of a document call, with useDataKey
DocRequest(p) ==
    /\ ~Idle(p) /\ Top(p).fn \in DocFns /\ Top(p).pc = "start"
    /\ p \in env.procs
    /\ Call2(p, "resp", RequestFrame(Cl(p), Ar(p).method, Ar(p).path, Ar(p).body, TRUE))
    /\ UNCHANGED << token, user, loggedOut, store, mu, lastOp >> /\ Fixed

\* the error of the request, or the response decoded (DeleteDocument decodes nothing)
DocResponse(p) ==
    /\ ~Idle(p) /\ Top(p).fn \in DocFns /\ Top(p).pc = "resp"
    /\ p \in env.procs
    /\ IF ret[p].err.kind # "nil"
       THEN Ret(p, Fail(ret[p].err))
       ELSE \/ Top(p).fn # "DeleteDocument" /\ Ret(p, Fail([kind |-> "decode"]))
            \/ Ret(p, Nil)
    /\ UNCHANGED << token, user, loggedOut, store, mu >> /\ Fixed

\* ---------------------------------------------------------------- the client
CInit(e) ==
    /\ env = e
    /\ token = [c \in Clients |-> ""]
    /\ user = [c \in Clients |-> NoUser]
    /\ apiKey = [c \in Clients |-> "k"]
    /\ storage = [c \in Clients |-> "S"]
    /\ mu = [c \in Clients |-> [w |-> None, r |-> {}]]
    /\ loggedOut = [c \in Clients |-> FALSE]
    /\ store = [k \in {} |-> ""]
    /\ stack = [p \in Procs |-> <<>>]
    /\ ret = [p \in Procs |-> NoRet]
    /\ sent = [p \in Procs |-> NoSent]
    /\ lastOp = [p \in Procs |-> NoOp]
    /\ tokenEvent = NoEvent

AuthFns == { "Login", "Register" }
UserFns == { "Login", "Register", "InitAuth" }

\* a step inside a call
ClientStep(p) ==
    \/ SetTokenLock(p) \/ SetTokenWrite(p) \/ SetTokenStore(p)
    \/ GetTokenRLock(p) \/ GetTokenRead(p) \/ GetTokenRUnlock(p)
    \/ IsAuthenticatedRLock(p) \/ IsAuthenticatedRead(p) \/ IsAuthenticatedRUnlock(p)
    \/ HasRoleRLock(p) \/ HasRoleRead(p) \/ HasRoleRUnlock(p)
    \/ LogoutLock(p) \/ LogoutWrite(p) \/ LogoutStore(p)
    \/ RequestBuild(p) \/ RequestRLock(p) \/ RequestRead(p) \/ RequestRUnlock(p)
    \/ RequestDo(p)
    \/ GetCurrentUserStart(p) \/ GetCurrentUserAuth(p) \/ GetCurrentUserResp(p)
    \/ \E fn \in AuthFns : AuthStart(p, fn) \/ AuthResp(p, fn) \/ AuthSet(p, fn)
    \/ \E fn \in UserFns :
         AuthUser(p, fn) \/ AuthLock(p, fn) \/ AuthWrite(p, fn) \/ AuthUnlock(p, fn)
    \/ InitAuthStart(p) \/ InitAuthLock(p) \/ InitAuthWrite(p) \/ InitAuthUnlock(p)
    \/ UpdateUserStart(p) \/ UpdateUserAuth(p) \/ UpdateUserRLock(p) \/ UpdateUserRead(p)
    \/ UpdateUserRUnlock(p) \/ UpdateUserReq(p) \/ UpdateUserResp(p)
    \/ UpdateUserLock(p) \/ UpdateUserWrite(p) \/ UpdateUserUnlock(p) \/ UpdateUserStore(p)
    \/ DocRequest(p) \/ DocResponse(p)

\* a call starts
ClientCall(p, c) ==
    \/ \E t \in env.tokens : SetToken(p, c, t)
    \/ GetToken(p, c) \/ IsAuthenticated(p, c)
    \/ \E r \in env.roles : HasRole(p, c, r)
    \/ Logout(p, c)
    \/ GetCurrentUser(p, c)
    \/ Login(p, c)
    \/ \E d \in env.data : Register(p, c, d)
    \/ InitAuth(p, c)
    \/ \E a \in UpdateArgs : a.data \in env.data \cup { NoData } /\ UpdateUser(p, c, a)
    \/ GetDocument(p, c) \/ CreateDocument(p, c) \/ UpdateDocument(p, c)
    \/ DeleteDocument(p, c)

NextClient ==
    \/ \E p \in Procs, c \in Clients :
         \/ \E key \in env.apiKeys, st \in env.storages : NewClient(p, c, key, st)
         \/ ClientCall(p, c)
    \/ \E p \in Procs : ClientStep(p)

\* the calls whose locking is at stake, from two goroutines on one client
ConcurrentCall(p, c) ==
    \/ \E t \in env.tokens : SetToken(p, c, t)
    \/ GetToken(p, c) \/ IsAuthenticated(p, c)
    \/ \E r \in env.roles : HasRole(p, c, r)
    \/ Logout(p, c)
    \/ Login(p, c)
    \/ \E d \in env.data : Register(p, c, d)
    \/ InitAuth(p, c)
    \/ \E a \in UpdateArgs : a.data \in env.data \cup { NoData } /\ UpdateUser(p, c, a)

ConcurrentStep(p) ==
    \/ SetTokenLock(p) \/ SetTokenWrite(p) \/ SetTokenStore(p)
    \/ GetTokenRLock(p) \/ GetTokenRead(p) \/ GetTokenRUnlock(p)
    \/ IsAuthenticatedRLock(p) \/ IsAuthenticatedRead(p) \/ IsAuthenticatedRUnlock(p)
    \/ HasRoleRLock(p) \/ HasRoleRead(p) \/ HasRoleRUnlock(p)
    \/ LogoutLock(p) \/ LogoutWrite(p) \/ LogoutStore(p)
    \/ RequestBuild(p) \/ RequestRLock(p) \/ RequestRead(p) \/ RequestRUnlock(p)
    \/ RequestDo(p)
    \/ GetCurrentUserStart(p) \/ GetCurrentUserAuth(p) \/ GetCurrentUserResp(p)
    \/ \E fn \in AuthFns : AuthStart(p, fn) \/ AuthResp(p, fn) \/ AuthSet(p, fn)
    \/ \E fn \in UserFns :
         AuthUser(p, fn) \/ AuthLock(p, fn) \/ AuthWrite(p, fn) \/ AuthUnlock(p, fn)
    \/ InitAuthStart(p) \/ InitAuthLock(p) \/ InitAuthWrite(p) \/ InitAuthUnlock(p)
    \/ UpdateUserStart(p) \/ UpdateUserAuth(p) \/ UpdateUserRLock(p) \/ UpdateUserRead(p)
    \/ UpdateUserRUnlock(p) \/ UpdateUserReq(p) \/ UpdateUserResp(p)
    \/ UpdateUserLock(p) \/ UpdateUserWrite(p) \/ UpdateUserUnlock(p) \/ UpdateUserStore(p)

NextConcurrent ==
    \/ \E p \in Procs, c \in Clients : ConcurrentCall(p, c)
    \/ \E p \in Procs : ConcurrentStep(p)

(***************************************************************************)
(* FileStorage (storage package): a map saved to a file as JSON.           *)
(***************************************************************************)
FsKeys == { TokenKey }
FsValues == { "t1", "t2" }
EmptyStore == [k \in {} |-> ""]
NoFile == [exists |-> FALSE, content |-> EmptyStore]
NoCall == [fn |-> None]
FsOther == UNCHANGED << qvars, cvars, wvars >>

FsIdle(p) == fsStack[p] = NoCall
FsAt(p, fns, pc) == ~crashed /\ fsStack[p].fn \in fns /\ fsStack[p].pc = pc
FsGoto(p, pc) == fsStack' = [fsStack EXCEPT ![p].pc = pc]
FsReturn(p, v, err) ==
    /\ fsStack' = [fsStack EXCEPT ![p] = NoCall]
    /\ fsRet' = [fsRet EXCEPT ![p] = [v |-> v, err |-> err]]

FInit ==
    /\ data = EmptyStore
    /\ file = NoFile
    /\ fsMu = [w |-> None, r |-> {}]
    /\ fsStack = [p \in Procs |-> NoCall]
    /\ fsRet = [p \in Procs |-> [v |-> None, err |-> "nil"]]
    /\ crashed = FALSE

\* NewFileStorage(filepath): a new object over the same file; load reads the
\* file under the lock, a missing file leaves the map empty
NewFileStorage ==
    /\ ~crashed /\ \A p \in Procs : FsIdle(p)
    /\ data' = IF file.exists THEN file.content ELSE EmptyStore
    /\ fsMu' = [w |-> None, r |-> {}]
    /\ fsRet' = [p \in Procs |-> [v |-> None, err |-> "nil"]]
    /\ UNCHANGED << file, fsStack, crashed >> /\ FsOther

FsCall(p, fn, pc, k, v) ==
    /\ ~crashed /\ FsIdle(p)
    /\ fsStack' = [fsStack EXCEPT ![p] =
            [fn |-> fn, pc |-> pc, key |-> k, value |-> v, json |-> EmptyStore]]
    /\ UNCHANGED << data, file, fsMu, fsRet, crashed >> /\ FsOther

FsSet(p, k, v) == FsCall(p, "Set", "lock", k, v)
FsDelete(p, k) == FsCall(p, "Delete", "lock", k, "")
FsGet(p, k) == FsCall(p, "Get", "rlock", k, "")

\* s.mu.Lock() of Set and Delete
FsLock(p) ==
    /\ FsAt(p, { "Set", "Delete" }, "lock")
    /\ fsMu.w = None /\ fsMu.r = {}
    /\ fsMu' = [fsMu EXCEPT !.w = p]
    /\ FsGoto(p, "write")
    /\ UNCHANGED << data, file, fsRet, crashed >> /\ FsOther

\* s.data[key] = value
FsSetWrite(p) ==
    /\ FsAt(p, { "Set" }, "write")
    /\ data' = [k \in (DOMAIN data) \cup { fsStack[p].key } |->
                  IF k = fsStack[p].key THEN fsStack[p].value ELSE data[k]]
    /\ FsGoto(p, "unlock")
    /\ UNCHANGED << file, fsMu, fsRet, crashed >> /\ FsOther

\* delete(s.data, key)
FsDeleteWrite(p) ==
    /\ FsAt(p, { "Delete" }, "write")
    /\ data' = [k \in (DOMAIN data) \ { fsStack[p].key } |-> data[k]]
    /\ FsGoto(p, "unlock")
    /\ UNCHANGED << file, fsMu, fsRet, crashed >> /\ FsOther

\* s.mu.Unlock(), before save is called
FsUnlock(p) ==
    /\ FsAt(p, { "Set", "Delete" }, "unlock")
    /\ fsMu' = [fsMu EXCEPT !.w = None]
    /\ FsGoto(p, "mkdir")
    /\ UNCHANGED << data, file, fsRet, crashed >> /\ FsOther

\* save: os.MkdirAll
saveMkdir(p) ==
    /\ FsAt(p, { "Set", "Delete" }, "mkdir")
    /\ \/ FsReturn(p, None, "mkdir")
       \/ FsGoto(p, "marshal") /\ UNCHANGED fsRet
    /\ UNCHANGED << data, file, fsMu, crashed >> /\ FsOther

\* another goroutine is about to write the map
FsWriterBeside(p) == \E q \in Procs \ { p } : FsAt(q, { "Set", "Delete" }, "write")

\* save: json.MarshalIndent(s.data) iterates the map, no lock held; beside a
\* writer the runtime may stop the program (concurrent map iteration and
\* map write), or the iteration sees the map before or after the write
saveMarshal(p) ==
    /\ FsAt(p, { "Set", "Delete" }, "marshal")
    /\ \/ /\ fsStack' = [fsStack EXCEPT ![p].pc = "writefile", ![p].json = data]
          /\ UNCHANGED crashed
       \/ /\ FsWriterBeside(p)
          /\ crashed' = TRUE
          /\ UNCHANGED fsStack
    /\ UNCHANGED << data, file, fsMu, fsRet >> /\ FsOther

\* save: os.WriteFile
saveWriteFile(p) ==
    /\ FsAt(p, { "Set", "Delete" }, "writefile")
    /\ \/ file' = [exists |-> TRUE, content |-> fsStack[p].json] /\ FsReturn(p, None, "nil")
       \/ UNCHANGED file /\ FsReturn(p, None, "write")
    /\ UNCHANGED << data, fsMu, crashed >> /\ FsOther

FsRLock(p) ==
    /\ FsAt(p, { "Get" }, "rlock")
    /\ fsMu.w = None
    /\ fsMu' = [fsMu EXCEPT !.r = @ \cup { p }]
    /\ FsGoto(p, "read")
    /\ UNCHANGED << data, file, fsRet, crashed >> /\ FsOther

\* value, exists := s.data[key]
FsGetRead(p) ==
    /\ FsAt(p, { "Get" }, "read")
    /\ fsStack' = [fsStack EXCEPT ![p].pc = "runlock",
                      ![p].value = IF fsStack[p].key \in DOMAIN data
                                   THEN data[fsStack[p].key] ELSE None]
    /\ UNCHANGED << data, file, fsMu, fsRet, crashed >> /\ FsOther

\* the deferred RUnlock and the return
FsRUnlock(p) ==
    /\ FsAt(p, { "Get" }, "runlock")
    /\ fsMu' = [fsMu EXCEPT !.r = @ \ { p }]
    /\ IF fsStack[p].value = None THEN FsReturn(p, "", "key not found")
                                   ELSE FsReturn(p, fsStack[p].value, "nil")
    /\ UNCHANGED << data, file, crashed >> /\ FsOther

NextStorage ==
    \/ NewFileStorage
    \/ \E p \in Procs, k \in FsKeys :
         \/ \E v \in FsValues : FsSet(p, k, v)
         \/ FsDelete(p, k)
         \/ FsGet(p, k)
    \/ \E p \in Procs :
         \/ FsLock(p) \/ FsSetWrite(p) \/ FsDeleteWrite(p) \/ FsUnlock(p)
         \/ saveMkdir(p) \/ saveMarshal(p) \/ saveWriteFile(p)
         \/ FsRLock(p) \/ FsGetRead(p) \/ FsRUnlock(p)

(***************************************************************************)
(* WatchCollection (cocobase/realtime.go): one subscription, its read      *)
(* loop goroutine, the goroutine calling Close and IsClosed, the server.   *)
(***************************************************************************)
Events == { "created", "deleted" }
\* a frame is the JSON of an event, or something ReadJSON cannot decode
BadFrame == "{"
Frames == Events \cup { BadFrame }
WOther == UNCHANGED << qvars, cvars, fvars >>

WInit ==
    /\ conn = "none"
    /\ wire = <<>> /\ wend = "none" /\ netClosed = FALSE
    /\ loop = "none" /\ event = None
    /\ arrived = <<>> /\ decoded = <<>> /\ delivered = <<>>
    /\ active = 0 /\ errSeen = FALSE
    /\ closed = FALSE /\ connMu = None
    /\ caller = "idle" /\ isClosed = <<>>

\* WatchCollection: the dial or the auth message may fail (no connection is
\* returned); otherwise the connection is made and the read loop started
WatchCollection ==
    /\ conn = "none"
    /\ \/ conn' = "failed" /\ UNCHANGED loop
       \/ conn' = "open" /\ loop' = "read"
    /\ UNCHANGED << wire, wend, netClosed, event, arrived, decoded, delivered, active,
                    errSeen, closed, connMu, caller, isClosed >>
    /\ WOther

\* the server sends a frame
ServerSend(f) ==
    /\ conn = "open" /\ wend = "none" /\ ~netClosed
    /\ Len(arrived) < MaxFrames
    /\ wire' = Append(wire, f)
    /\ arrived' = Append(arrived, f)
    /\ UNCHANGED << conn, wend, netClosed, loop, event, decoded, delivered, active,
                    errSeen, closed, connMu, caller, isClosed >>
    /\ WOther

\* the server closes the socket, or the network fails
ServerEnd(how) ==
    /\ conn = "open" /\ wend = "none"
    /\ wend' = how
    /\ UNCHANGED << conn, wire, netClosed, loop, event, arrived, decoded, delivered,
                    active, errSeen, closed, connMu, caller, isClosed >>
    /\ WOther

\* conn.ReadJSON(&event) returns a decoded event
LoopReadEvent ==
    /\ loop = "read"
    /\ wire # <<>> /\ Head(wire) \in Events
    /\ wire' = Tail(wire)
    /\ event' = Head(wire)
    /\ decoded' = Append(decoded, Head(wire))
    /\ loop' = "callback"
    /\ UNCHANGED << conn, wend, netClosed, arrived, delivered, active, errSeen,
                    closed, connMu, caller, isClosed >>
    /\ WOther

\* a loop that reads on after an error
LoopReadErrorContinues ==
    /\ loop = "read"
    /\ \/ wire # <<>> /\ Head(wire) = BadFrame
       \/ wire = <<>> /\ wend # "none"
       \/ netClosed
    /\ wire' = IF wire # <<>> THEN Tail(wire) ELSE wire
    /\ errSeen' = TRUE
    /\ loop' = IF wire # <<>> THEN "read" ELSE "return"
    /\ UNCHANGED << conn, wend, netClosed, event, arrived, decoded, delivered, active,
                    closed, connMu, caller, isClosed >>
    /\ WOther

\* conn.ReadJSON(&event) returns an error: the frame does not decode, the
\* stream has ended, or the connection was closed (frames not yet read are lost)
LoopReadError ==
    /\ loop = "read"
    /\ \/ wire # <<>> /\ Head(wire) = BadFrame
       \/ wire = <<>> /\ wend # "none"
       \/ netClosed
    /\ wire' = IF netClosed THEN <<>> ELSE IF wire # <<>> THEN Tail(wire) ELSE wire
    /\ errSeen' = TRUE
    /\ loop' = "return"
    /\ UNCHANGED << conn, wend, netClosed, event, arrived, decoded, delivered, active,
                    closed, connMu, caller, isClosed >>
    /\ WOther

\* callback(event) is invoked
LoopCallback ==
    /\ loop = "callback"
    /\ delivered' = Append(delivered, event)
    /\ active' = active + 1
    /\ loop' = "running"
    /\ UNCHANGED << conn, wire, wend, netClosed, event, arrived, decoded, errSeen,
                    closed, connMu, caller, isClosed >>
    /\ WOther

\* callback(event) returns; the loop reads again
LoopCallbackReturn ==
    /\ loop = "running"
    /\ active' = active - 1
    /\ loop' = "read"
    /\ UNCHANGED << conn, wire, wend, netClosed, event, arrived, decoded, delivered,
                    errSeen, closed, connMu, caller, isClosed >>
    /\ WOther

\* the deferred function: connection.mu.Lock()
LoopDeferLock ==
    /\ loop = "return"
    /\ connMu = None
    /\ connMu' = "loop"
    /\ loop' = "set"
    /\ UNCHANGED << conn, wire, wend, netClosed, event, arrived, decoded, delivered,
                    active, errSeen, closed, caller, isClosed >>
    /\ WOther

\* connection.closed = true; connection.mu.Unlock(); the goroutine ends
LoopDeferSet ==
    /\ loop = "set"
    /\ closed' = TRUE
    /\ connMu' = None
    /\ loop' = "done"
    /\ UNCHANGED << conn, wire, wend, netClosed, event, arrived, decoded, delivered,
                    active, errSeen, caller, isClosed >>
    /\ WOther

\* Connection.Close and Connection.IsClosed: conn.mu.Lock()
ConnLock(fn) ==
    /\ conn = "open" /\ caller = "idle"
    /\ connMu = None
    /\ connMu' = "caller"
    /\ caller' = fn
    /\ UNCHANGED << conn, wire, wend, netClosed, loop, event, arrived, decoded,
                    delivered, active, errSeen, closed, isClosed >>
    /\ WOther

\* Close: nothing if closed already, else closed = true and conn.conn.Close()
Close ==
    /\ caller = "Close"
    /\ closed' = TRUE
    /\ netClosed' = (netClosed \/ ~closed)
    /\ connMu' = None
    /\ caller' = "idle"
    /\ UNCHANGED << conn, wire, wend, loop, event, arrived, decoded, delivered,
                    active, errSeen, isClosed >>
    /\ WOther

\* IsClosed: return conn.closed
IsClosed ==
    /\ caller = "IsClosed"
    /\ isClosed' = << closed >>
    /\ connMu' = None
    /\ caller' = "idle"
    /\ UNCHANGED << conn, wire, wend, netClosed, loop, event, arrived, decoded,
                    delivered, active, errSeen, closed >>
    /\ WOther

\* the steps of the read loop goroutine
LoopStep ==
    \/ LoopReadEvent \/ LoopReadError \/ LoopCallback \/ LoopCallbackReturn
    \/ LoopDeferLock \/ LoopDeferSet

NextWatch ==
    \/ WatchCollection
    \/ \E f \in Frames : ServerSend(f)
    \/ \E how \in { "closed", "failed" } : ServerEnd(how)
    \/ LoopStep
    \/ \E fn \in { "Close", "IsClosed" } : ConnLock(fn)
    \/ Close
    \/ IsClosed

\* the goroutine is scheduled, a callback returns, a closed connection makes
\* the pending read fail, and a goroutine waiting for the sync.Mutex gets it
\* (the mutex hands over to a starving waiter)
WatchFairness ==
    /\ WF_vars(LoopReadEvent) /\ WF_vars(LoopReadError)
    /\ WF_vars(LoopCallback) /\ WF_vars(LoopCallbackReturn)
    /\ SF_vars(LoopDeferLock) /\ WF_vars(LoopDeferSet)
    /\ WF_vars(Close) /\ WF_vars(IsClosed)

(***************************************************************************)
(* Specifications.                                                         *)
(***************************************************************************)
Init == QInit /\ CInit(SessionEnv) /\ FInit /\ WInit
InitRequest == QInit /\ CInit(RequestEnv) /\ FInit /\ WInit
InitConcurrent == QInit /\ CInit(ConcurrentEnv) /\ FInit /\ WInit

SpecSession == Init /\ [][NextClient]_vars
SpecRequest == InitRequest /\ [][NextClient]_vars
SpecClient == InitConcurrent /\ [][NextConcurrent]_vars
SpecStorage == Init /\ [][NextStorage]_vars
SpecWatch == Init /\ [][NextWatch]_vars /\ WatchFairness

\* every builder method, in chains of at most MaxCalls calls
Spec == Init /\ [][NextQuery]_vars

\* chains of AND filter methods
SpecFilter == Init /\ [][NextFilter]_vars

\* chains of Limit, Offset and Page
SpecPaging == Init /\ [][NextPaging]_vars


\* names of OR groups and of fields of OR conditions; Go strings may hold "="
OrGroups == { <<>>, << "g" >>, << "=" >>, << "=", "g" >> }
OrFields == { << "a" >>, << "a", "=", "b" >> }

\* the OrBuilder methods alone: Or().M(...) and OrGroup(g).M(...)
NextOr ==
    \/ \E g \in OrGroups, f \in OrFields, v \in Values : OrWhere(g, f, v)
    \/ \E g \in Groups, f \in { << "a" >> }, v \in Values :
          \/ OrEquals(g, f, v) \/ OrNotEquals(g, f, v)
          \/ OrGreaterThan(g, f, v) \/ OrGreaterThanOrEqual(g, f, v)
          \/ OrLessThan(g, f, v) \/ OrLessThanOrEqual(g, f, v)
    \/ \E g \in Groups, f \in { << "a" >> }, t \in { << "x" >> } :
          OrContains(g, f, t) \/ OrStartsWith(g, f, t) \/ OrEndsWith(g, f, t)
    \/ \E g \in Groups, f \in { << "a" >> } : OrIsNull(g, f) \/ OrIsNotNull(g, f)
    \/ Build
    \/ NewQuery

\* chains of OR conditions
SpecOr == Init /\ [][NextOr]_vars

\* builders in the middle of a chain: what Where("a", "x"), Or().Where("a", "x"),
\* Page(2, 2) and OrderBy("a"), each called or not, have left
ChainFilters == { EmptyMap, (<< "a" >> :> << "x" >>) }
ChainOrFilters == { EmptyMap, (<<>> :> << << "[", "o", "r", "]", "a", "=", "x" >> >>) }
ChainPages == { << 0, 0 >>, << 2, 2 >> }
ChainOrders == { << <<>>, <<>> >>, << << "a" >>, Asc_ >> }

ChainInit ==
    /\ filters \in ChainFilters
    /\ orFilters \in ChainOrFilters
    /\ \E p \in ChainPages : limit = p[1] /\ offset = p[2]
    /\ \E o \in ChainOrders : sort = o[1] /\ order = o[2]
    /\ built = NoBuild
    /\ lastCall = [m |-> "Chain", args |-> <<>>]
    /\ ncalls = 0

InitChain == ChainInit /\ CInit(SessionEnv) /\ FInit /\ WInit

\* the arguments of the calls of a mixed chain
ChainValues == { IntV(18) }
ChainRanges == { << IntV(1), IntV(18) >> }
ChainLists == { << IntV(18), StrV(<< "x" >>) >> }
ChainInts == { 0 - 1, 0, 3 }

\* methods of every kind, mixed
NextChain ==
    \/ \E f \in Fields, v \in ChainValues : Where(f, v)
    \/ \E f \in Fields : IsNull(f)
    \/ \E r \in ChainRanges : Between(<< "a" >>, r[1], r[2])
    \/ \E vs \in ChainLists : In(<< "b" >>, vs)
    \/ \E g \in Groups, v \in ChainValues : OrWhere(g, << "a" >>, v)
    \/ OrContains(<< "g" >>, << "b" >>, << "x" >>)
    \/ \E n \in ChainInts : Limit(n) \/ Offset(n)
    \/ Page(2, 3)
    \/ \E f \in Fields : OrderBy(f) \/ OrderByDesc(f)
    \/ OrderByAsc(<< "b" >>)
    \/ Asc \/ Desc \/ Recent \/ Oldest
    \/ Build
    \/ NewQuery

\* mixed chains, continued from a builder in the middle of a chain
SpecChain == InitChain /\ [][NextChain]_vars

(***************************************************************************)
(* Reading a query string, as the tests do (url.ParseQuery, not unescaped).*)
(***************************************************************************)
RECURSIVE SplitAmp(_)
\* the pairs of a query string: its pieces between "&"
SplitAmp(s) ==
    IF s = <<>> THEN <<>>
    ELSE IF \E i \in 1..Len(s) : s[i] = "&"
    THEN LET i == CHOOSE i \in 1..Len(s) : s[i] = "&" /\ \A j \in 1..(i - 1) : s[j] # "&"
         IN << SubSeq(s, 1, i - 1) >> \o SplitAmp(SubSeq(s, i + 1, Len(s)))
    ELSE << s >>

RECURSIVE ValuesIn(_, _)
ValuesIn(pairs, k) ==
    IF pairs = <<>> THEN <<>>
    ELSE LET parts == SplitN2(Head(pairs))
         IN (IF Len(parts) = 2 /\ parts[1] = QueryEscape(k) THEN << parts[2] >> ELSE <<>>)
            \o ValuesIn(Tail(pairs), k)

\* the (escaped) values the query string s gives parameter k, in order
ValuesOf(s, k) == ValuesIn(SplitAmp(s), k)

\* the query string s holds the pair k=v
Emits(s, k, v) == \E i \in 1..Len(ValuesOf(s, k)) : ValuesOf(s, k)[i] = QueryEscape(v)

KLimit == << "l", "i", "m", "i", "t" >>
KOffset == << "o", "f", "f", "s", "e", "t" >>

(***************************************************************************)
(* Claims.                                                                 *)
(***************************************************************************)

\* C1 (as claimed): after Page(p, n) with p < 1 and n > 0 on a fresh builder
\* the page counts as page 1 (limit n, offset 0) and the string Build returns
\* holds the parameter offset with value 0.
C1_PageBelowOneEmitsOffsetZero ==
    ( /\ lastCall.m = "Page" /\ ncalls = 1
      /\ lastCall.args[1] < 1 /\ lastCall.args[2] > 0
      /\ built # NoBuild )
    => /\ limit = lastCall.args[2]
       /\ offset = 0
       /\ Emits(built, KOffset, << "0" >>)

\* C2: for p >= 2 and n >= 1, after Page(p, n) the builder holds limit n and
\* offset (p-1)*n, whatever earlier Limit, Offset or Page calls had set, and
\* Build emits exactly limit=n and offset=(p-1)*n for these two parameters.
C2_PageSetsLimitAndOffset ==
    ( lastCall.m = "Page" /\ lastCall.args[1] >= 2 /\ lastCall.args[2] >= 1 )
    => LET p == lastCall.args[1]
           n == lastCall.args[2]
       IN /\ limit = n
          /\ offset = (p - 1) * n
          /\ built # NoBuild =>
                /\ ValuesOf(built, KLimit) = << Itoa(n) >>
                /\ ValuesOf(built, KOffset) = << Itoa((p - 1) * n) >>

\* witness of C2: Page(3, 2) called after an earlier pagination call, then Build
C2_Witness ==
    /\ lastCall.m = "Page"
    /\ lastCall.args = << 3, 2 >>
    /\ ncalls >= 2
    /\ built # NoBuild
    /\ Emits(built, KOffset, << "4" >>)

\* the methods C10 is about
C10_Methods ==
    { "Where", "Equals", "NotEquals", "GreaterThan", "GreaterThanOrEqual",
      "LessThan", "LessThanOrEqual", "Contains", "StartsWith", "EndsWith",
      "IsNull", "IsNotNull", "Active", "Deleted" }

\* the suffix C10 gives each method
C10_Suffix(m) ==
    CASE m \in { "Where", "Equals" } -> <<>>
      [] m = "NotEquals" -> << "_", "n", "e" >>
      [] m = "GreaterThan" -> << "_", "g", "t" >>
      [] m = "GreaterThanOrEqual" -> << "_", "g", "t", "e" >>
      [] m = "LessThan" -> << "_", "l", "t" >>
      [] m = "LessThanOrEqual" -> << "_", "l", "t", "e" >>
      [] m = "Contains" -> << "_", "c", "o", "n", "t", "a", "i", "n", "s" >>
      [] m = "StartsWith" -> << "_", "s", "t", "a", "r", "t", "s", "w", "i", "t", "h" >>
      [] m = "EndsWith" -> << "_", "e", "n", "d", "s", "w", "i", "t", "h" >>
      [] m \in { "IsNull", "IsNotNull", "Active", "Deleted" } ->
            << "_", "i", "s", "n", "u", "l", "l" >>

\* the parameter key C10 expects of a call
C10_Key(c) ==
    (IF c.m \in { "Active", "Deleted" } THEN DeletedAt ELSE c.args[1]) \o C10_Suffix(c.m)

\* the parameter value C10 expects of a call
C10_Value(c) ==
    CASE c.m \in { "IsNull", "Active" } -> << "t", "r", "u", "e" >>
      [] c.m \in { "IsNotNull", "Deleted" } -> << "f", "a", "l", "s", "e" >>
      [] c.m \in { "Contains", "StartsWith", "EndsWith" } -> c.args[2]
      [] OTHER -> FormatV(c.args[2])

\* a call of one of the methods writes its own key and no other
C10_Step ==
    ( ncalls' = ncalls + 1 /\ lastCall'.m \in C10_Methods )
    => filters' = Put(filters, C10_Key(lastCall'), C10_Value(lastCall'))

\* Build, called after one of the methods, emits the key once, with the value
C10_Emitted ==
    ( built # NoBuild /\ lastCall.m \in C10_Methods )
    => ValuesOf(built, C10_Key(lastCall)) = << QueryEscape(C10_Value(lastCall)) >>

\* C10: each single-field filter method sets exactly one query parameter: its
\* key is the field plus the method's suffix, its value the formatted argument
\* (true / false for IsNull / IsNotNull; Active and Deleted act on deletedAt),
\* and Build emits that parameter.
C10_FilterMethodSetsItsKey == [][C10_Step]_vars /\ []C10_Emitted

\* witness of C10: LessThanOrEqual("b", 18) after an earlier filter call, built
C10_Witness ==
    /\ lastCall.m = "LessThanOrEqual"
    /\ lastCall.args = << << "b" >>, IntV(18) >>
    /\ ncalls >= 2
    /\ built = << "a", "=", "x", "&", "b", "_", "l", "t", "e", "=", "1", "8" >>

(***************************************************************************)
(* Client: locking of the session fields.                                  *)
(***************************************************************************)
\* goroutine p is at a read, or at a write, of c.token or c.user
Reading(p, c) == ~Idle(p) /\ Cl(p) = c /\ Top(p).pc = "read"
Writing(p, c) == ~Idle(p) /\ Cl(p) = c /\ Top(p).pc \in { "write", "write1" }

C3_LocksHeld ==
    \A p \in Procs, c \in Clients :
       /\ Reading(p, c) => (p \in mu[c].r \/ mu[c].w = p)
       /\ Reading(p, c) => \A q \in Procs \ { p } : ~Writing(q, c)
       /\ Writing(p, c) =>
            /\ mu[c].w = p /\ mu[c].r = {}
            /\ \A q \in Procs \ { p } : ~Writing(q, c)

C3_WriteStep ==
    \A c \in Clients :
       (token'[c] # token[c] \/ user'[c] # user[c]) =>
          \E p \in Procs : Writing(p, c) /\ mu[c].w = p /\ stack'[p] # stack[p]

\* C3: in every interleaving of the client's calls, a goroutine reading
\* c.token or c.user holds c.mu (for reading at least) with no writer beside
\* it, a goroutine writing them holds c.mu exclusively, and the two fields
\* change only in a step of the goroutine holding c.mu for writing.
C3_SessionFieldsUnderLock == []C3_LocksHeld /\ [][C3_WriteStep]_vars

\* C3 witness: one goroutine inside Logout's write, holding the lock, while
\* another one waits in request for the read lock; a token is set.
C3_Witness ==
    /\ At("g1", "Logout", "write") /\ At("g2", "request", "rlock")
    /\ mu["A"].w = "g1" /\ token["A"] = "t1"

(***************************************************************************)
(* Client: the token through the storage.                                  *)
(***************************************************************************)
C5_Stored ==
    \A p \in Procs :
       (Idle(p) /\ lastOp[p].fn \in { "SetToken", "Login", "Register" }
          /\ storage[lastOp[p].c] # "nil") =>
          /\ lastOp[p].fn = "SetToken" =>
               TokenKey \in DOMAIN store /\ store[TokenKey] = lastOp[p].a.token
          /\ (lastOp[p].fn # "SetToken" /\ lastOp[p].st = "ok") =>
               TokenKey \in DOMAIN store /\ store[TokenKey] = lastOp[p].tok

C5_Restored ==
    \A p \in Procs :
       (Idle(p) /\ lastOp[p].fn = "InitAuth" /\ lastOp[p].fresh
          /\ storage[lastOp[p].c] # "nil") =>
          /\ tokenEvent.kind = "set" => token[lastOp[p].c] = tokenEvent.t
          /\ tokenEvent.kind = "logout" =>
               /\ lastOp[p].st = "ok"
               /\ token[lastOp[p].c] = "" /\ user[lastOp[p].c] = NoUser

\* C5: after SetToken(t), or a Login or Register that succeeded having
\* received t, the storage holds t under "cocobase-token"; InitAuth on a
\* new client over that storage sets the client's token to the t stored
\* last; after Logout, InitAuth on a new client returns nil and leaves it
\* without token and user.
C5_TokenRoundTrip == C5_Stored /\ C5_Restored

\* C5 witness: the first client received t2, the second, new one ran
\* InitAuth and holds t2.
C5_Witness ==
    /\ Idle("g1") /\ lastOp["g1"].fn = "InitAuth" /\ lastOp["g1"].c = "B"
    /\ lastOp["g1"].fresh
    /\ tokenEvent = [kind |-> "set", t |-> "t2"]
    /\ token["B"] = "t2" /\ token["A"] = "t2" /\ user["A"] = U1

(***************************************************************************)
(* Client: the headers of a request.                                       *)
(***************************************************************************)
C7_Headers ==
    \A p \in Procs :
       sent[p].status >= 0 =>
          LET r == sent[p].req
              h == r.headers
          IN /\ ("Authorization" \in DOMAIN h) <=> (r.tokenAtBuild # "")
             /\ ("Authorization" \in DOMAIN h) =>
                   h["Authorization"] = << "Bearer ", r.tokenAtBuild >>
             /\ ("x-api-key" \in DOMAIN h) <=> (apiKey[r.client] # "")
             /\ ("x-api-key" \in DOMAIN h) => h["x-api-key"] = << apiKey[r.client] >>
             /\ loggedOut[r.client] => "Authorization" \notin DOMAIN h

C7_TokenRead ==
    \A p \in Procs :
       (At(p, "request", "read") /\ stack'[p] # stack[p]) =>
          stack'[p][Len(stack'[p])].a.tok = token[Cl(p)]

\* C7: a request carries Authorization: Bearer t exactly when the token
\* request read from the client while building it is a non-empty t, and
\* x-api-key exactly when the API key is non-empty; after Logout, until a
\* token is set again, the token is empty and no request carries
\* Authorization.
C7_RequestHeaders ==
    /\ [](C7_Headers /\ \A c \in Clients : loggedOut[c] => token[c] = "")
    /\ [][C7_TokenRead]_vars

\* C7 witness: a request issued after Logout, with the API key and without
\* Authorization.
C7_Witness ==
    /\ sent["g1"].status >= 0 /\ loggedOut["A"]
    /\ DOMAIN sent["g1"].req.headers = { "Content-Type", "x-api-key" }
    /\ sent["g1"].req.method = "DELETE"

(***************************************************************************)
(* Client: the session on the token.                                       *)
(***************************************************************************)
\* C8: IsAuthenticated returns true exactly when the token GetToken returns
\* is non-empty; the token is empty for a new client and after Logout,
\* non-empty after SetToken(t) with t non-empty and after a Login or
\* Register that succeeded having received a non-empty token.
C8_SessionOnToken ==
    \A p \in Procs :
       Idle(p) =>
          LET o == lastOp[p]
          IN /\ (o.fn = "IsAuthenticated" /\ o.st = "ok") => ret[p].v = (token[o.c] # "")
             /\ (o.fn = "GetToken" /\ o.st = "ok") => ret[p].v = token[o.c]
             /\ o.fn \in { "NewClient", "Logout" } => token[o.c] = ""
             /\ (o.fn = "SetToken" /\ o.a.token # "") => token[o.c] # ""
             /\ (o.fn \in AuthFns /\ o.st = "ok" /\ o.tok # "") => token[o.c] # ""

\* C8 witness: IsAuthenticated returned true on a client without cached
\* user, its token set by SetToken.
C8_Witness ==
    /\ Idle("g1") /\ lastOp["g1"].fn = "IsAuthenticated" /\ lastOp["g1"].c = "A"
    /\ ret["g1"].v = TRUE
    /\ token["A"] = "t1" /\ user["A"] = NoUser

(***************************************************************************)
(* Client: the error of a response.                                        *)
(***************************************************************************)
C9_Generic == << "Check the API documentation and verify your request format" >>
C9_Specific == { 401, 403, 404, 405, 429 }

\* C9: for a response of status s, request returns an APIError and no
\* response when s >= 400, the response and no error when s < 400; the
\* APIError carries s, the method, the URL and the body of the response; its
\* Suggestion is the generic text exactly when s is none of 401, 403, 404,
\* 405, 429, the texts of these five differ, and that of 405 names the method.
C9_ErrorOfResponse ==
    \A p \in Procs :
       sent[p].status > 0 =>
          LET st == sent[p].status
              r == sent[p].req
              e == ret[p].err
          IN IF st >= 400
             THEN /\ ret[p].v = NoResp
                  /\ e.kind = "api"
                  /\ e.StatusCode = st /\ e.Method = r.method /\ e.URL = r.url
                  /\ e.Body = sent[p].body
                  /\ (e.Suggestion = C9_Generic) <=> (st \notin C9_Specific)
                  /\ \A o \in C9_Specific \ { st } :
                        e.Suggestion # getErrorSuggestion(o, r.method)
                  /\ st = 405 => e.Suggestion[2] = r.method
             ELSE /\ e = NoErr
                  /\ ret[p].v = [status |-> st]

\* C9 witness: a DELETE answered with 405 gave an APIError naming DELETE.
C9_Witness ==
    /\ sent["g1"].status = 405 /\ sent["g1"].req.method = "DELETE"
    /\ ret["g1"].err.kind = "api" /\ ret["g1"].err.StatusCode = 405
    /\ ret["g1"].err.Body = "denied"

(***************************************************************************)
(* FileStorage: the map and the lock.                                      *)
(***************************************************************************)
\* C4: a goroutine writing the map holds the storage's lock exclusively, a
\* goroutine reading it (in Get, or in save while marshalling it) holds the
\* lock at least for reading.
C4_MapUnderLock ==
    \A p \in Procs :
       /\ FsAt(p, { "Set", "Delete" }, "write") => (fsMu.w = p /\ fsMu.r = {})
       /\ FsAt(p, { "Get" }, "read") => (p \in fsMu.r \/ fsMu.w = p)
       /\ FsAt(p, { "Set", "Delete" }, "marshal") => (p \in fsMu.r \/ fsMu.w = p)

\* two Set calls race: one marshals the map, the other is about to write it
C4_Race ==
    /\ FsAt("g1", { "Set" }, "marshal") /\ FsAt("g2", { "Set" }, "write")
    /\ fsMu.w = "g2"

(***************************************************************************)
(* WatchCollection: the read loop.                                         *)
(***************************************************************************)
IsPrefix(a, b) == Len(a) <= Len(b) /\ SubSeq(b, 1, Len(a)) = a

C6_Once ==
    /\ active <= 1
    /\ IF loop = "callback" THEN decoded = Append(delivered, event)
                             ELSE delivered = decoded
    /\ IsPrefix(decoded, arrived)
    /\ errSeen => loop \in { "return", "set", "done" }
    /\ isClosed = << TRUE >> => closed

C6_Stops ==
    /\ errSeen => (errSeen' /\ delivered' = delivered /\ active' = 0)
    /\ closed => closed'
    /\ isClosed' # isClosed => isClosed' = << closed >>

\* C6: the callback is invoked once per decoded frame, in the order of
\* arrival, never two at a time; once ReadJSON has returned an error (the
\* frame does not decode, the stream ended or the connection was closed) no
\* callback is invoked any more, the connection becomes closed and stays
\* so, and IsClosed returns what closed is.
C6_ReadLoop == []C6_Once /\ [][C6_Stops]_vars /\ (errSeen ~> closed)

\* C6 witness: two events delivered in order, then a frame that does not
\* decode; the loop has ended, IsClosed returned true.
C6_Witness ==
    /\ arrived = << "created", "deleted", BadFrame >>
    /\ delivered = << "created", "deleted" >>
    /\ errSeen /\ loop = "done" /\ closed /\ ~netClosed
    /\ isClosed = << TRUE >>

\* the filters GreaterThanOrEqual(field, value) leaves when called on fs
C11_AfterGte(fs, field, value) == Put(fs, field \o << "_", "g", "t", "e" >>, FormatV(value))

\* the filters LessThanOrEqual(field, value) leaves when called on fs
C11_AfterLte(fs, field, value) == Put(fs, field \o << "_", "l", "t", "e" >>, FormatV(value))

\* a Between step leaves what the two calls, one after the other, leave
C11_Step ==
    ( ncalls' = ncalls + 1 /\ lastCall'.m = "Between" )
    => LET a == lastCall'.args
       IN /\ filters' = C11_AfterLte(C11_AfterGte(filters, a[1], a[2]), a[1], a[3])
          /\ UNCHANGED << orFilters, limit, offset, sort, order >>

\* Build, called after Between, emits field_gte=min and field_lte=max
C11_Emitted ==
    ( built # NoBuild /\ lastCall.m = "Between" )
    => LET a == lastCall.args
       IN /\ ValuesOf(built, a[1] \o << "_", "g", "t", "e" >>) = << QueryEscape(FormatV(a[2])) >>
          /\ ValuesOf(built, a[1] \o << "_", "l", "t", "e" >>) = << QueryEscape(FormatV(a[3])) >>

\* C11: Between(field, min, max) is GreaterThanOrEqual(field, min) followed by
\* LessThanOrEqual(field, max): from any builder state it leaves the builder
\* state the two calls leave, and Build then emits field_gte=min and
\* field_lte=max.
C11_BetweenIsGteThenLte == [][C11_Step]_vars /\ []C11_Emitted

\* witness of C11: Between("a", 1, 18) on a builder that already holds a
\* filter, then Build
C11_Witness ==
    /\ lastCall.m = "Between" /\ ncalls = 2
    /\ lastCall.args[1] = << "a" >> /\ lastCall.args[2] = IntV(1)
    /\ DOMAIN filters # { << "a", "_", "g", "t", "e" >>, << "a", "_", "l", "t", "e" >> }
    /\ built # NoBuild
    /\ Emits(built, << "a", "_", "g", "t", "e" >>, << "1" >>)
    /\ Emits(built, << "a", "_", "l", "t", "e" >>, << "1", "8" >>)

RECURSIVE C12_Fields(_)
\* f1__or__f2__or__...__or__fn
C12_Fields(fs) ==
    IF Len(fs) = 1 THEN fs[1]
    ELSE fs[1] \o << "_", "_", "o", "r", "_", "_" >> \o C12_Fields(Tail(fs))

\* the parameter key of Search over the fields fs
C12_Key(fs) == C12_Fields(fs) \o << "_", "c", "o", "n", "t", "a", "i", "n", "s" >>

\* a Search step writes the one key, with the search term as its value
C12_Step ==
    ( ncalls' = ncalls + 1 /\ lastCall'.m = "Search" )
    => /\ filters' = Put(filters, C12_Key(lastCall'.args[2]), lastCall'.args[1])
       /\ UNCHANGED << orFilters, limit, offset, sort, order >>

\* Build, called after Search, emits the key once, with the search term
C12_Emitted ==
    ( built # NoBuild /\ lastCall.m = "Search" )
    => ValuesOf(built, C12_Key(lastCall.args[2])) = << QueryEscape(lastCall.args[1]) >>

\* C12: Search(term, f1, ..., fn) sets the single parameter whose key is the
\* field names joined by "__or__" followed by "_contains" and whose value is
\* the search term, and Build emits that parameter.
C12_SearchSetsJoinedKey == [][C12_Step]_vars /\ []C12_Emitted

\* witness of C12: Search("y z", "a", "b") after an earlier filter call, built
C12_Witness ==
    /\ lastCall.m = "Search" /\ ncalls = 2
    /\ lastCall.args[1] = << "y", " ", "z" >>
    /\ lastCall.args[2] = << << "a" >>, << "b" >> >>
    /\ built # NoBuild
    /\ ValuesOf(built, << "a", "_", "_", "o", "r", "_", "_", "b", "_", "c", "o", "n", "t", "a", "i", "n", "s" >>)
          = << << "y", "+", "z" >> >>

RECURSIVE C13_Joined(_)
\* the formatted values, in argument order, with "," between them
C13_Joined(vs) ==
    IF Len(vs) = 1 THEN FormatV(vs[1])
    ELSE FormatV(vs[1]) \o << "," >> \o C13_Joined(Tail(vs))

\* the parameter key of In / NotIn on a field
C13_Key(c) ==
    c.args[1] \o (IF c.m = "In" THEN << "_", "i", "n" >> ELSE << "_", "n", "o", "t", "i", "n" >>)

\* an In / NotIn step writes its key, with the joined values
C13_Step ==
    ( ncalls' = ncalls + 1 /\ lastCall'.m \in { "In", "NotIn" } )
    => /\ filters' = Put(filters, C13_Key(lastCall'), C13_Joined(lastCall'.args[2]))
       /\ UNCHANGED << orFilters, limit, offset, sort, order >>

\* Build, called after In / NotIn, emits the key once, with the joined values
C13_Emitted ==
    ( built # NoBuild /\ lastCall.m \in { "In", "NotIn" } )
    => ValuesOf(built, C13_Key(lastCall)) = << QueryEscape(C13_Joined(lastCall.args[2])) >>

\* C13: In(field, v1, ..., vn) sets the parameter field_in and
\* NotIn(field, v1, ..., vn) the parameter field_notin to the formatted values
\* joined by "," in argument order, and Build emits that parameter.
C13_InAndNotInJoinValues == [][C13_Step]_vars /\ []C13_Emitted

\* witness of C13: NotIn("b", 18, "x") after an earlier filter call, built
C13_Witness ==
    /\ lastCall.m = "NotIn" /\ ncalls = 2
    /\ lastCall.args[1] = << "b" >>
    /\ lastCall.args[2] = << IntV(18), StrV(<< "x" >>) >>
    /\ filters[<< "b", "_", "n", "o", "t", "i", "n" >>] = << "1", "8", ",", "x" >>
    /\ built # NoBuild
    /\ ValuesOf(built, << "b", "_", "n", "o", "t", "i", "n" >>)
          = << << "1", "8", "%", "2", "C", "x" >> >>

\* the suffix C14 gives each OrBuilder method
C14_Suffix(m) ==
    CASE m \in { "Or.Where", "Or.Equals" } -> <<>>
      [] m = "Or.NotEquals" -> << "_", "n", "e" >>
      [] m = "Or.GreaterThan" -> << "_", "g", "t" >>
      [] m = "Or.GreaterThanOrEqual" -> << "_", "g", "t", "e" >>
      [] m = "Or.LessThan" -> << "_", "l", "t" >>
      [] m = "Or.LessThanOrEqual" -> << "_", "l", "t", "e" >>
      [] m = "Or.Contains" -> << "_", "c", "o", "n", "t", "a", "i", "n", "s" >>
      [] m = "Or.StartsWith" -> << "_", "s", "t", "a", "r", "t", "s", "w", "i", "t", "h" >>
      [] m = "Or.EndsWith" -> << "_", "e", "n", "d", "s", "w", "i", "t", "h" >>
      [] m \in { "Or.IsNull", "Or.IsNotNull" } -> << "_", "i", "s", "n", "u", "l", "l" >>

C14_Methods ==
    { "Or.Where", "Or.Equals", "Or.NotEquals", "Or.GreaterThan",
      "Or.GreaterThanOrEqual", "Or.LessThan", "Or.LessThanOrEqual", "Or.Contains",
      "Or.StartsWith", "Or.EndsWith", "Or.IsNull", "Or.IsNotNull" }

\* the parameter key C14 expects of a condition: "[or]" or "[or:g]", the
\* field, the suffix
C14_Key(c) ==
    (IF c.args[1] = <<>> THEN << "[", "o", "r", "]" >>
     ELSE << "[", "o", "r", ":" >> \o c.args[1] \o << "]" >>)
    \o c.args[2] \o C14_Suffix(c.m)

\* the parameter value C14 expects of a condition
C14_Value(c) ==
    CASE c.m = "Or.IsNull" -> << "t", "r", "u", "e" >>
      [] c.m = "Or.IsNotNull" -> << "f", "a", "l", "s", "e" >>
      [] c.m \in { "Or.Contains", "Or.StartsWith", "Or.EndsWith" } -> c.args[3]
      [] OTHER -> FormatV(c.args[3])

\* C14 (as claimed): a condition added through Or() is emitted by Build under
\* the key "[or]" + field (+ "_" + suffix when the method is not Where or
\* Equals), one added through OrGroup(g) under "[or:g]" + field (+ suffix),
\* each with the formatted value; OrGroup("") is Or().
C14_OrConditionUnderItsKey ==
    ( built # NoBuild /\ lastCall.m \in C14_Methods )
    => Emits(built, C14_Key(lastCall), C14_Value(lastCall))

\* the conditions a group holds (none when the group was never used)
C15_Of(m, g) == IF g \in DOMAIN m THEN m[g] ELSE <<>>

\* an OrBuilder call appends its condition to its group's list and leaves the
\* lists of the other groups as they were
C15_Step ==
    ( ncalls' = ncalls + 1 /\ lastCall'.m \in C14_Methods )
    => LET g == lastCall'.args[1]
       IN /\ C15_Of(orFilters', g)
               = C15_Of(orFilters, g)
                 \o << C14_Key(lastCall') \o << "=" >> \o C14_Value(lastCall') >>
          /\ \A h \in (DOMAIN orFilters \cup DOMAIN orFilters') \ {g} :
                C15_Of(orFilters', h) = C15_Of(orFilters, h)

RECURSIVE C15_Count(_, _)
\* the number of conditions held by the groups in S
C15_Count(m, S) ==
    IF S = {} THEN 0
    ELSE LET g == CHOOSE g \in S : TRUE
         IN Len(m[g]) + C15_Count(m, S \ {g})

RECURSIVE C15_Under(_, _)
\* the (escaped) values the conditions of list give the emitted key k, in order
C15_Under(list, k) ==
    IF list = <<>> THEN <<>>
    ELSE LET parts == SplitN2(Head(list))
         IN (IF QueryEscape(parts[1]) = k THEN << QueryEscape(parts[2]) >> ELSE <<>>)
            \o C15_Under(Tail(list), k)

RECURSIVE C15_IsSubseq(_, _)
\* a is b with some elements left out
C15_IsSubseq(a, b) ==
    IF a = <<>> THEN TRUE
    ELSE IF b = <<>> THEN FALSE
    ELSE IF Head(a) = Head(b) THEN C15_IsSubseq(Tail(a), Tail(b))
    ELSE C15_IsSubseq(a, Tail(b))

\* the emitted keys of a query string
C15_Keys(s) == { SplitN2(SplitAmp(s)[i])[1] : i \in 1..Len(SplitAmp(s)) }

\* the (escaped) values a query string gives the emitted key k, in order
RECURSIVE C15_ValuesIn(_, _)
C15_ValuesIn(pairs, k) ==
    IF pairs = <<>> THEN <<>>
    ELSE LET parts == SplitN2(Head(pairs))
         IN (IF parts[1] = k THEN << parts[2] >> ELSE <<>>) \o C15_ValuesIn(Tail(pairs), k)

\* Build emits one pair per condition held, and under every key the
\* conditions of each group in the order they were added
C15_Emitted ==
    ( built # NoBuild /\ filters = EmptyMap /\ limit <= 0 /\ offset <= 0 /\ sort = <<>> )
    => /\ Len(SplitAmp(built)) = C15_Count(orFilters, DOMAIN orFilters)
       /\ \A g \in DOMAIN orFilters :
             /\ \A i \in 1..Len(orFilters[g]) :
                   QueryEscape(SplitN2(orFilters[g][i])[1]) \in C15_Keys(built)
             /\ \A k \in C15_Keys(built) :
                   C15_IsSubseq(C15_Under(orFilters[g], k), C15_ValuesIn(SplitAmp(built), k))

\* C15: OR conditions accumulate: every OrBuilder call appends to its group's
\* list, and Build emits every condition added, for every group; two
\* conditions on the same field in one group are both kept, in the order
\* added.
C15_OrConditionsAccumulate == [][C15_Step]_vars /\ []C15_Emitted

\* witness of C15: OrGroup("g").Where("a", "x").Where("a", 18), then Build
C15_Witness ==
    /\ lastCall.m = "Or.Where" /\ ncalls = 2
    /\ orFilters = (<< "g" >> :> << << "[", "o", "r", ":", "g", "]", "a", "=", "x" >>,
                                    << "[", "o", "r", ":", "g", "]", "a", "=", "1", "8" >> >>)
    /\ built # NoBuild
    /\ ValuesOf(built, << "[", "o", "r", ":", "g", "]", "a" >>) = << << "x" >>, << "1", "8" >> >>

C16_FilterMethods ==
    C10_Methods \cup { "Between", "Search", "In", "NotIn" }
C16_PagingMethods == { "Limit", "Offset", "Page" }
C16_OrderMethods ==
    { "OrderBy", "OrderByAsc", "OrderByDesc", "Asc", "Desc", "Recent", "Oldest" }

\* the filter keys a call of an AND filter method may write
C16_Keys(c) ==
    CASE c.m \in C10_Methods -> { C10_Key(c) }
      [] c.m = "Between" -> { c.args[1] \o << "_", "g", "t", "e" >>,
                              c.args[1] \o << "_", "l", "t", "e" >> }
      [] c.m = "Search" -> { C12_Key(c.args[2]) }
      [] c.m \in { "In", "NotIn" } -> { C13_Key(c) }

\* every builder call leaves alone what is not its own
C16_Step ==
    ( ncalls' = ncalls + 1 )
    => LET c == lastCall'
       IN /\ c.m \in C16_FilterMethods =>
                /\ UNCHANGED << orFilters, limit, offset, sort, order >>
                /\ DOMAIN filters' = DOMAIN filters \cup C16_Keys(c)
                /\ \A k \in DOMAIN filters \ C16_Keys(c) : filters'[k] = filters[k]
          /\ c.m \in C14_Methods =>
                /\ UNCHANGED << filters, limit, offset, sort, order >>
                /\ DOMAIN orFilters' = DOMAIN orFilters \cup { c.args[1] }
                /\ \A g \in DOMAIN orFilters \ { c.args[1] } : orFilters'[g] = orFilters[g]
          /\ c.m \in C16_PagingMethods =>
                /\ UNCHANGED << filters, orFilters, sort, order >>
                /\ c.m = "Limit" => offset' = offset
                /\ c.m = "Offset" => limit' = limit
          /\ c.m \in C16_OrderMethods =>
                UNCHANGED << filters, orFilters, limit, offset >>

\* Build emits all the builder holds: every filter, every OR condition, the
\* limit and the offset when positive, the sort field with its order
C16_Present ==
    built # NoBuild
    => /\ \A k \in DOMAIN filters : ValuesOf(built, k) = << QueryEscape(filters[k]) >>
       /\ \A g \in DOMAIN orFilters : \A i \in 1..Len(orFilters[g]) :
             Emits(built, SplitN2(orFilters[g][i])[1], SplitN2(orFilters[g][i])[2])
       /\ limit > 0 => ValuesOf(built, KLimit) = << Itoa(limit) >>
       /\ offset > 0 => ValuesOf(built, KOffset) = << Itoa(offset) >>
       /\ sort # <<>> =>
             /\ ValuesOf(built, << "s", "o", "r", "t" >>) = << QueryEscape(sort) >>
             /\ ValuesOf(built, << "o", "r", "d", "e", "r" >>) = << order >>

\* C16: the builder steps do not disturb each other: an AND filter call
\* changes only its own key, an OR condition only its group's list, Limit,
\* Offset and Page only limit and offset, an ordering call only sort and
\* order; after a mixed chain all of them are present in what Build returns.
C16_StepsDoNotDisturb == [][C16_Step]_vars /\ []C16_Present

\* witness of C16: a chain holding two filters, two OR groups, a page and an
\* ordering, built
C16_Witness ==
    /\ ncalls = 2 /\ built # NoBuild
    /\ DOMAIN filters = { << "a" >>, << "b" >> }
    /\ DOMAIN orFilters = { <<>>, << "g" >> }
    /\ limit = 2 /\ offset = 2 /\ sort = << "a" >> /\ order = Asc_
    /\ Emits(built, << "b" >>, << "1", "8" >>)
    /\ Emits(built, << "[", "o", "r", ":", "g", "]", "a" >>, << "1", "8" >>)
    /\ Emits(built, KLimit, << "2" >>) /\ Emits(built, KOffset, << "2" >>)
    /\ Emits(built, << "s", "o", "r", "t" >>, << "a" >>)

\* what an ordering call that names its field leaves
C17_Named ==
    /\ lastCall.m \in { "OrderBy", "OrderByAsc" } =>
          sort = lastCall.args[1] /\ order = << "a", "s", "c" >>
    /\ lastCall.m = "OrderByDesc" =>
          sort = lastCall.args[1] /\ order = << "d", "e", "s", "c" >>
    /\ lastCall.m = "Recent" =>
          sort = << "c", "r", "e", "a", "t", "e", "d", "_", "a", "t" >>
          /\ order = << "d", "e", "s", "c" >>
    /\ lastCall.m = "Oldest" =>
          sort = << "c", "r", "e", "a", "t", "e", "d", "_", "a", "t" >>
          /\ order = << "a", "s", "c" >>
    /\ lastCall.m = "Asc" => order = << "a", "s", "c" >>
    /\ lastCall.m = "Desc" => order = << "d", "e", "s", "c" >>

\* Asc and Desc keep the sort field
C17_Step ==
    ( ncalls' = ncalls + 1 /\ lastCall'.m \in { "Asc", "Desc" } ) => sort' = sort

\* Build emits the sort field and the order of the last ordering call
C17_Emitted ==
    ( built # NoBuild /\ sort # <<>> )
    => /\ ValuesOf(built, << "s", "o", "r", "t" >>) = << sort >>
       /\ ValuesOf(built, << "o", "r", "d", "e", "r" >>) = << order >>

\* C17: OrderBy(f) and OrderByAsc(f) give sort=f, order=asc; OrderByDesc(f)
\* gives sort=f, order=desc; Recent and Oldest are OrderByDesc and OrderByAsc
\* on created_at. The last ordering call decides: OrderBy(f) after Desc()
\* gives asc, Desc() after OrderBy(f) gives sort=f, order=desc.
C17_LastOrderingDecides == [][C17_Step]_vars /\ [](C17_Named /\ C17_Emitted)

\* witness of C17: OrderBy("b").Desc(), then Build
C17_Witness ==
    /\ lastCall.m = "Desc" /\ ncalls = 2
    /\ sort = << "b" >> /\ order = << "d", "e", "s", "c" >>
    /\ built # NoBuild
    /\ Emits(built, << "s", "o", "r", "t" >>, << "b" >>)
    /\ Emits(built, << "o", "r", "d", "e", "r" >>, << "d", "e", "s", "c" >>)

\* the parameters the builder holds, as a set of pairs << key, value >>
C18_Pairs ==
    { << k, filters[k] >> : k \in DOMAIN filters }
    \cup UNION { { << SplitN2(orFilters[g][i])[1], SplitN2(orFilters[g][i])[2] >> :
                     i \in 1..Len(orFilters[g]) } : g \in DOMAIN orFilters }
    \cup (IF limit > 0 THEN { << KLimit, Itoa(limit) >> } ELSE {})
    \cup (IF offset > 0 THEN { << KOffset, Itoa(offset) >> } ELSE {})
    \cup (IF sort # <<>> THEN { << << "s", "o", "r", "t" >>, sort >>,
                                << << "o", "r", "d", "e", "r" >>, order >> } ELSE {})

\* every call of the chain has set a parameter of its own
C18_DifferentParameters ==
    /\ Cardinality({ p[1] : p \in C18_Pairs }) = Cardinality(C18_Pairs)
    /\ Cardinality(C18_Pairs)
          = Cardinality(DOMAIN filters) + C15_Count(orFilters, DOMAIN orFilters)
            + (IF limit > 0 THEN 1 ELSE 0) + (IF offset > 0 THEN 1 ELSE 0)
            + (IF sort # <<>> THEN 2 ELSE 0)

RECURSIVE C18_Ascending(_)
\* the pairs of S as key=value strings, by ascending key
C18_Ascending(S) ==
    IF S = {} THEN <<>>
    ELSE LET p == CHOOSE p \in S : \A q \in S : ~StrLess(q[1], p[1])
         IN << QueryEscape(p[1]) \o << "=" >> \o QueryEscape(p[2]) >>
            \o C18_Ascending(S \ {p})

RECURSIVE C18_Amp(_)
\* strings with "&" between them
C18_Amp(ss) ==
    IF ss = <<>> THEN <<>>
    ELSE IF Len(ss) = 1 THEN ss[1]
    ELSE ss[1] \o << "&" >> \o C18_Amp(Tail(ss))

\* C18: Build lists the parameters in ascending key order, independent of
\* the order of the calls: the string is fixed by the set of parameters held,
\* so any two orderings of the same calls that set different parameters give
\* the identical string.
C18_BuildSortsByKey ==
    ( built # NoBuild /\ C18_DifferentParameters ) => built = C18_Amp(C18_Ascending(C18_Pairs))

\* witness of C18: Where("b", 18) then Limit(3) on a builder holding an
\* offset and an OR condition: the limit, set last, is listed between b and
\* offset, the OR condition first
C18_Witness ==
    /\ lastCall.m = "Limit" /\ ncalls = 2
    /\ C18_DifferentParameters
    /\ built = << "%", "5", "B", "o", "r", "%", "5", "D", "a", "=", "x", "&",
                  "b", "=", "1", "8", "&", "l", "i", "m", "i", "t", "=", "3", "&",
                  "o", "f", "f", "s", "e", "t", "=", "2" >>

\* the builder holds nothing Build would emit
C19_Nothing ==
    /\ DOMAIN filters = {}
    /\ \A g \in DOMAIN orFilters : orFilters[g] = <<>>
    /\ limit <= 0
    /\ offset <= 0
    /\ sort = <<>>

\* C19: Build returns the empty string exactly when the builder holds no AND
\* filter, no OR condition, limit <= 0, offset <= 0 and no sort field, as a
\* fresh NewQuery() does and a builder on which only Asc() or Desc() was
\* called; ListDocuments then appends no "?" to the path.
C19_EmptyExactlyWhenNothingSet ==
    built # NoBuild
    => /\ (built = <<>>) <=> C19_Nothing
       /\ C19_Nothing => \A i \in 1..Len(ListDocumentsPath(built)) :
                             ListDocumentsPath(built)[i] # "?"
       /\ ~C19_Nothing => ListDocumentsPath(built)[25] = "?"

\* witness of C19: Asc().Desc() on a fresh builder, then Build
C19_Witness ==
    /\ lastCall.m = "Desc" /\ ncalls = 2
    /\ order = << "d", "e", "s", "c" >>
    /\ C19_Nothing
    /\ built = <<>>
    /\ Len(ListDocumentsPath(built)) = 24

\* a Build step leaves the builder as it was and returns what the Build
\* before it returned
C20_Step ==
    ( ncalls' = ncalls /\ built' # NoBuild )
    => /\ UNCHANGED << filters, orFilters, limit, offset, sort, order >>
       /\ built # NoBuild => built' = built

\* C20 (as claimed): Build is pure: it leaves filters, OR conditions, limit,
\* offset, sort and order unchanged, and any number of Build calls on an
\* unchanged builder return the same string, whatever the iteration order of
\* the internal maps.
C20_BuildIsPure == [][C20_Step]_vars

\* the last call wins: Limit(n) leaves limit n, Offset(m) leaves offset m,
\* whatever was set before, and neither touches the other
C21_Step ==
    /\ ( ncalls' = ncalls + 1 /\ lastCall'.m = "Limit" )
          => limit' = lastCall'.args[1] /\ offset' = offset
    /\ ( ncalls' = ncalls + 1 /\ lastCall'.m = "Offset" )
          => offset' = lastCall'.args[1] /\ limit' = limit

\* Build emits limit and offset exactly when they are positive
C21_Emitted ==
    built # NoBuild
    => /\ ValuesOf(built, KLimit) = (IF limit > 0 THEN << Itoa(limit) >> ELSE <<>>)
       /\ ValuesOf(built, KOffset) = (IF offset > 0 THEN << Itoa(offset) >> ELSE <<>>)

====
